---- MODULE Spec2Model ----
(***************************************************************************)
(* A model of the jet command-line client for JIRA (jira-jet).             *)
(*                                                                         *)
(*   SpecPage  : the pagination loops of Client.GetEpicChildren and        *)
(*               Client.getEpicChildrenViaSearch against a provider whose  *)
(*               data and reporting habits are fixed when the run starts.  *)
(*   SpecShift : the shift and close commands (GetTransitions, the match   *)
(*               loop, TransitionIssue) over successive invocations.       *)
(*   SpecLink  : the link command (relationship table, direction flag,     *)
(*               Client.LinkIssues).                                       *)
(*   SpecDesc  : parseDescription on raw JSON description bytes.           *)
(***************************************************************************)
EXTENDS Integers, Sequences, FiniteSets, TLC

VARIABLES
    \* ---- paginated search (internal/jira client) ----
    strategy,     \* "agile" = GetEpicChildren, "search" = getEpicChildrenViaSearch
    provider,     \* what the provider holds and how it reports: [n, totalMode, cap]
    pagePc,       \* "loop" while the for-loop runs, "done" once the function returned
    startAt,      \* local startAt
    allIssues,    \* local allIssues
    pageResult,   \* the returned []Issue (<<>> for nil)
    pageErr,      \* the returned error ("" for nil)
    requests,     \* history: the startAt of every page request issued, in order
    lastPage,     \* history: [len, total] of the last decoded page as the loop test saw it
    firstRun      \* history: how the other strategy ended on this provider before (or NoRun)

pageVars == <<strategy, provider, pagePc, startAt, allIssues, pageResult, pageErr,
              requests, lastPage, firstRun>>

VARIABLES
    \* ---- shift and close commands ----
    workflow,      \* provider: the transitions of the project's workflow, in its order
    issueStatus,   \* provider: the status name of every ticket
    lastCmd,       \* "none", or the command of the invocation that ran last
    ticketKey,     \* args[0] of that invocation
    targetStatus,  \* args[1] of that invocation ("" for close)
    statusBefore,  \* the provider's status of that ticket when the invocation began
    fetchOk,       \* whether its GetTransitions call returned a nil error
    returned,      \* the list that call returned (<<>> if it failed or was not made)
    transitions,   \* the local transitions of that invocation (<<>> if the fetch failed)
    cmdRequests,   \* the requests that invocation sent to the provider, in order
    shown,         \* the status names it printed under "Available transitions:"
    cmdErr         \* the error RunE returned ("" for nil)

shiftVars == <<workflow, issueStatus, lastCmd, ticketKey, targetStatus, statusBefore, fetchOk,
               returned, transitions, cmdRequests, shown, cmdErr>>

VARIABLES
    \* ---- link command ----
    linkArgs,     \* args of the invocation: <<TICKET-KEY, RELATIONSHIP, TICKET-KEY>>
    linkPc,       \* "start" before RunE runs, "done" after it returned
    linkRuns,     \* how many invocations have been started
    linkSent,     \* the IssueLinkRequest bodies this invocation posted to /rest/api/2/issueLink
    linkErr,      \* the error RunE returned ("" for nil)
    links         \* provider: the issue links it has created

linkVars == <<linkArgs, linkPc, linkRuns, linkSent, linkErr, links>>

VARIABLES
    \* ---- description normalizer ----
    descText,     \* the text the provider holds ("" when descRaw is not an encoded text)
    descStyle,    \* how the provider encodes it, or "raw" for other description values
    descDoc,      \* the document tree the provider holds (NoDoc when it holds none)
    descRaw,      \* fields.description as received: the bytes of a JSON value
    descOp,       \* the operation that fetched the ticket ("" before one ran)
    descReply,    \* the provider's reply to the operation's request (NoReply before it)
    descErr,      \* the operation's error, "" when it returned the ticket
    descPc,       \* "raw" before an operation ran on descRaw; after it "parsed"
                  \* (GetIssue), "searched" (a search operation) or "failed"
    descRuns,     \* how many times the flat text has been served again
    descOut       \* Fields.DescriptionText

descVars == <<descText, descStyle, descDoc, descRaw, descOp, descReply, descErr, descPc,
              descRuns, descOut>>

VARIABLES
    \* ---- the transport (makeRequest of the Jira and the Confluence client) ----
    client,       \* the client: [kind, BaseURL, Email, Username, Token]
    reqCalls,     \* the makeRequest calls so far: [method, endpoint, hasBody]
    reqSent,      \* the requests handed to the network, in order
    reqErr,       \* the error of the last call ("" for nil)
    reqStatus     \* the status of the response the last call returned (0 for none)

reqVars == <<client, reqCalls, reqSent, reqErr, reqStatus>>

VARIABLES
    \* ---- the attachments command (cmd/attachments.go) ----
    attachments,  \* issue.Fields.Attachment of the ticket: [filename, content]
    attDownload,  \* the --download flag
    attIndex,     \* the --index flag
    attPc,        \* "start", "downloading" (inside the download loop) or "done"
    attQueue,     \* the indices the download loop has still to visit
    attOps,       \* history: the operations run so far, [op, target, err] (target: the
                  \* attachment index of a download, -1 otherwise)
    attSuccess,   \* the command printed its "Success! Downloaded ..." line
    attErr,       \* the error RunE returned ("" for nil)
    attCfg,       \* the configuration config.Load returns when it succeeds
    attSent       \* history: the download requests handed to the network: [url, user, password]

attVars == <<attachments, attDownload, attIndex, attPc, attQueue, attOps, attSuccess, attErr,
             attCfg, attSent>>

VARIABLES
    \* ---- configuration loading (internal/config) ----
    env,          \* the environment: prefix -> [URL, Email, Username, Token]
    cfgFile,      \* ~/.jira_config: [exists, mode, lines, chmodOk, openOk]
    cfgPc,        \* "start" before Load ran, "done" after
    cfgModeBefore,\* history: the file's mode when Load began
    cfgFromFile,  \* history: the Config loadFromFileSection returned (EmptyConfig if none)
    cfgEvents,    \* history: what loading did to the file, in order
    cfgOut,       \* the Config Load returned (EmptyConfig for nil)
    cfgErr        \* the error Load returned ("" for nil)

cfgVars == <<env, cfgFile, cfgPc, cfgModeBefore, cfgFromFile, cfgEvents, cfgOut, cfgErr>>

VARIABLES
    \* ---- the self-update command (cmd/selfupdate.go) ----
    cwdDepth,     \* the working directory, as its depth below the file system's root
    goMods,       \* the depths on the way up to the root at which a go.mod lies
    jetInPath,    \* a jet binary is found in PATH
    userConfirms, \* the user would answer yes if asked to confirm the update
    updPc,        \* "start" before the command ran, "done" after
    updSteps,     \* history: the steps the command took, in order
    updPrompted,  \* history: the command asked the user to confirm
    installed,    \* the binary at the installed path: "old" or "new"
    updErr        \* the error RunE returned ("" for nil)

updVars == <<cwdDepth, goMods, jetInPath, userConfirms, updPc, updSteps, updPrompted, installed,
             updErr>>

VARIABLES
    \* ---- the view command (cmd/view.go) ----
    viewArg,      \* args[0]: a ticket key or a URL
    viewPc,       \* "start" before the command ran, "done" after
    viewFormat,   \* the --format flag
    viewOutput,   \* the --output flag ("" for standard output)
    viewFetched,  \* history: the keys GetIssue was called with
    viewOut,      \* where the ticket went: [dest, form], dest "" for nowhere
    viewErr       \* the error RunE returned ("" for nil)

viewVars == <<viewArg, viewPc, viewFormat, viewOutput, viewFetched, viewOut, viewErr>>

VARIABLES
    \* ---- the init command (cmd/init.go) ----
    initFile,     \* ~/.jira_config: [exists, mode, lines, openOk, createOk]
    initBefore,   \* history: the file when the command began
    initInput,    \* the settings the user entered: [URL, Email, Username, Token]
    initUmask,    \* the file mode creation mask of the process
    initPc,       \* "start" before the command ran, "done" after
    initSaved,    \* history: "" (nothing yet), "cancelled", "env" or "file"
    initErr       \* the error runInit returned ("" for nil)

initVars == <<initFile, initBefore, initInput, initUmask, initPc, initSaved, initErr>>

VARIABLES
    \* ---- the epic command (cmd/epic.go) ----
    epicArg,      \* args[0]: an epic key or a URL
    showAllTickets, \* the --all flag
    epicFetched,  \* what GetEpicChildren returns for the epic: the children
    epicPc,       \* "start" before the command ran, "done" after
    epicKey,      \* history: the key GetEpicChildren was called with
    epicShown,    \* history: the children put out, in order
    epicExit      \* the exit status of the command

epicVars == <<epicArg, showAllTickets, epicFetched, epicPc, epicKey, epicShown, epicExit>>

VARIABLES
    \* ---- one operation of the Jira client and the provider's answer ----
    opName,       \* the method of Client that is called
    opReply,      \* the provider's answer: [fault, status, body]
    opPc,         \* "start" before the call, "done" after
    opErr,        \* the error the method returned ("" for nil)
    opResult      \* the method returned a result (a non-nil value) beside the error

opVars == <<opName, opReply, opPc, opErr, opResult>>

vars == <<pageVars, shiftVars, linkVars, descVars, reqVars, attVars, cfgVars, updVars, viewVars, initVars, epicVars, opVars>>

----------------------------------------------------------------------------
(* Bounds of the model.                                                    *)

MaxRecords == 120
MaxFetches == 4
ServerPageCap == 20
OverReport == 60
MaxTransitions == 3
MaxLinkRuns == 2
MaxTextLen == 3
MaxRenormalize == 1
MaxDocNodes == 4
MaxCalls == 2
MaxAttachments == 3
MaxDepth == 3
MaxChildren == 3

(* Program constants.                                                      *)

AgilePageSize == 50
SearchPageSize == 100
\* File modes, as numbers: 0600 and the modes configuration files are found with.
Mode0600 == 384
GroupOtherBits == 64
CreatePerm == 438
Umask022 == 18
Umask077 == 63
Umask002 == 2

Min(a, b) == IF a <= b THEN a ELSE b

----------------------------------------------------------------------------
(* Go's strings package, on TLA+ strings.                                  *)

UpperLetters == "ABCDEFGHIJKLMNOPQRSTUVWXYZ"
LowerLetters == "abcdefghijklmnopqrstuvwxyz"

CharAt(s, i) == SubSeq(s, i, i)

\* The characters that occur in s.
CharsOf(s) == {SubSeq(s, k, k) : k \in 1..Len(s)}

\* The characters of code points 1 to 31, in their order.
ControlChars == "\t\n\f\r"

\* The character of code point 96.
BackTick == SubSeq("`'", 1, 1)

\* The printable ASCII characters, code points 32 to 126.
PrintableAscii ==
    " !\"#$%&'()" \o "*+,-./0123456789:;<=>?@" \o "ABCDEFGHIJKLMNOPQRSTUVWXYZ"
    \o "[\\]^_" \o BackTick \o "abcdefghijklmnopqrstuvwxyz{|}~"

\* The characters of code points 127 to 255.
HighChars == " ¡¢£¤¥¦§¨©ª«¬­®¯°±²³´µ¶·¸¹º»¼½¾¿ÀÁÂÃÄÅÆÇÈÉÊËÌÍÎÏÐÑÒÓÔÕÖ×ØÙÚÛÜÝÞßàáâãäåæçèéêëìíîïðñòóôõö÷øùúûüýþÿ"

\* The characters of code points 1 to 255: the character of code point cp
\* stands at place cp.
Latin1 == ControlChars \o PrintableAscii \o HighChars

\* unicode.ReplacementChar, U+FFFD
ReplacementChar == "�"

InAlphabet(cp) == cp >= 1 /\ cp <= 255

\* The character of a code point.
CodePoint(cp) == IF InAlphabet(cp) THEN CharAt(Latin1, cp) ELSE ReplacementChar

\* The letters with a lower-case form among the characters: A to Z, and
\* U+00C0 to U+00DE but for the multiplication sign; and those forms.
UpperCase == UpperLetters \o SubSeq(Latin1, 192, 214) \o SubSeq(Latin1, 216, 222)
LowerCase == LowerLetters \o SubSeq(Latin1, 224, 246) \o SubSeq(Latin1, 248, 254)

\* unicode.ToLower, as a table
LowerOf ==
    [c \in {CharAt(UpperCase, i) : i \in 1..Len(UpperCase)} |->
        CharAt(LowerCase, CHOOSE i \in 1..Len(UpperCase) : CharAt(UpperCase, i) = c)]

ToLowerChar(c) == IF c \in DOMAIN LowerOf THEN LowerOf[c] ELSE c

RECURSIVE ToLower(_)
\* strings.ToLower
ToLower(s) ==
    IF Len(s) = 0 THEN "" ELSE ToLowerChar(CharAt(s, 1)) \o ToLower(SubSeq(s, 2, Len(s)))

\* strings.HasPrefix
HasPrefix(s, prefix) ==
    Len(prefix) <= Len(s) /\ SubSeq(s, 1, Len(prefix)) = prefix

\* strings.HasSuffix
HasSuffix(s, suffix) ==
    Len(suffix) <= Len(s) /\ SubSeq(s, Len(s) - Len(suffix) + 1, Len(s)) = suffix

\* strings.Contains
Contains(s, substr) ==
    \E i \in 1..(Len(s) - Len(substr) + 1) : SubSeq(s, i, i + Len(substr) - 1) = substr

----------------------------------------------------------------------------
(* encoding/json, as far as parseDescription uses it: a decoder for the    *)
(* bytes of one JSON value.  A decoded value is [kind, str, items]: str is *)
(* the text of a string or number, items the elements of an array or the   *)
(* <<key, value>> members of an object.  A string is a sequence of         *)
(* characters (code points, not the bytes of their UTF-8 form); the        *)
(* characters that can be written are those of code points 1 to 255, and   *)
(* a decoded character outside them (U+0000, or above U+00FF) is written   *)
(* as U+FFFD.                                                              *)

Quote == "\""
Backslash == "\\"

\* The character of s at position i, "" beyond its end.
At(s, i) == IF i >= 1 /\ i <= Len(s) THEN SubSeq(s, i, i) ELSE ""

\* scanner.go, isSpace: the blanks between the tokens of a JSON text
IsSpace(c) == c \in {" ", "\t", "\n", "\r"}
\* scanner.go, stateInString: "c < 0x20" is an invalid character in a string
ControlCharSet == CharsOf(ControlChars)
IsControl(c) == c \in ControlCharSet
IsDigit(c) == c \in {"0", "1", "2", "3", "4", "5", "6", "7", "8", "9"}

RECURSIVE SkipSpace(_, _)
SkipSpace(s, i) == IF IsSpace(At(s, i)) THEN SkipSpace(s, i + 1) ELSE i

RECURSIVE ScanDigits(_, _)
ScanDigits(s, i) == IF IsDigit(At(s, i)) THEN ScanDigits(s, i + 1) ELSE i

HexDigits == "0123456789abcdef"
IsHex(c) == \E k \in 1..Len(HexDigits) : CharAt(HexDigits, k) = ToLowerChar(c)
HexValue(c) == (CHOOSE k \in 1..Len(HexDigits) : CharAt(HexDigits, k) = ToLowerChar(c)) - 1

\* The character a two-character escape denotes, "" if it is no escape.
Unescape(e) ==
    CASE e = Quote     -> Quote
      [] e = Backslash -> Backslash
      [] e = "/"       -> "/"
      [] e = "n"       -> "\n"
      [] e = "t"       -> "\t"
      [] e = "r"       -> "\r"
      [] e = "f"       -> "\f"
      [] e = "b"       -> CodePoint(8)
      [] OTHER         -> ""

JSONValue(kind, str, items) == [kind |-> kind, str |-> str, items |-> items]

Failed == [ok |-> FALSE, next |-> 0, val |-> JSONValue("invalid", "", <<>>)]
Parsed(next, val) == [ok |-> TRUE, next |-> next, val |-> val]

\* The code point of the four hex digits at positions j..j+3.
HexCodePoint(s, j) ==
    4096 * HexValue(At(s, j)) + 256 * HexValue(At(s, j + 1))
        + 16 * HexValue(At(s, j + 2)) + HexValue(At(s, j + 3))

\* getu4: there are four hex digits at positions j..j+3.
IsHexEscape(s, j) == \A k \in 0..3 : At(s, j + k) # "" /\ IsHex(At(s, j + k))

\* utf16.IsSurrogate
IsSurrogate(cp) == cp >= 55296 /\ cp < 57344

\* The escape at position j is the first half of a surrogate pair whose
\* second half follows as an escape: utf16.DecodeRune gives a character.
IsSurrogatePair(s, j) ==
    /\ HexCodePoint(s, j + 2) >= 55296 /\ HexCodePoint(s, j + 2) < 56320
    /\ At(s, j + 6) = Backslash /\ At(s, j + 7) = "u" /\ IsHexEscape(s, j + 8)
    /\ HexCodePoint(s, j + 8) >= 56320 /\ HexCodePoint(s, j + 8) < 57344

RECURSIVE ScanString(_, _, _)
RECURSIVE ScanEscape(_, _, _, _)

\* The rest of a string literal from position j, after its opening quote;
\* acc is the text decoded so far.
ScanString(s, j, acc) ==
    IF At(s, j) = "" \/ IsControl(At(s, j)) THEN Failed
    ELSE IF At(s, j) = Quote THEN Parsed(j + 1, JSONValue("string", acc, <<>>))
    ELSE IF At(s, j) # Backslash THEN ScanString(s, j + 1, acc \o At(s, j))
    ELSE ScanEscape(s, j, acc, At(s, j + 1))

\* The escape at position j, whose second character is e.
ScanEscape(s, j, acc, e) ==
    IF e = "u" THEN
        IF ~IsHexEscape(s, j + 2) THEN Failed
        ELSE IF IsSurrogatePair(s, j) THEN ScanString(s, j + 12, acc \o ReplacementChar)
        ELSE IF IsSurrogate(HexCodePoint(s, j + 2))
           THEN ScanString(s, j + 6, acc \o ReplacementChar)
        ELSE ScanString(s, j + 6, acc \o CodePoint(HexCodePoint(s, j + 2)))
    ELSE IF e # "" /\ Unescape(e) # "" THEN ScanString(s, j + 2, acc \o Unescape(e))
    ELSE Failed

\* The number a string of digits from place i on denotes, after acc.
RECURSIVE DigitsValue(_, _, _)
DigitsValue(s, i, acc) ==
    IF i > Len(s) THEN acc ELSE DigitsValue(s, i + 1, 10 * acc + HexValue(At(s, i)))

\* A number literal: the positions after its sign, integer part, fraction,
\* exponent mark and exponent.
AfterSign(s, i) == IF At(s, i) = "-" THEN i + 1 ELSE i
AfterInt(s, i1) == IF At(s, i1) = "0" THEN i1 + 1 ELSE ScanDigits(s, i1)
AfterFrac(s, i2) == IF At(s, i2) = "." THEN ScanDigits(s, i2 + 1) ELSE i2
AfterExpMark(s, i3) ==
    IF ToLowerChar(At(s, i3)) = "e"
       THEN (IF At(s, i3 + 1) \in {"+", "-"} THEN i3 + 2 ELSE i3 + 1)
       ELSE i3
AfterExp(s, i3, i4) == IF i4 > i3 THEN ScanDigits(s, i4) ELSE i3

NumberExp(s, i, i3, i4, i5) ==
    IF i4 > i3 /\ i5 = i4 THEN Failed
    ELSE Parsed(i5, JSONValue("number", SubSeq(s, i, i5 - 1), <<>>))
NumberFrac(s, i, i2, i3) ==
    IF i3 = i2 + 1 THEN Failed
    ELSE NumberExp(s, i, i3, AfterExpMark(s, i3), AfterExp(s, i3, AfterExpMark(s, i3)))
NumberInt(s, i, i1, i2) ==
    IF i2 = i1 THEN Failed ELSE NumberFrac(s, i, i2, AfterFrac(s, i2))

\* A number literal at position i.
ParseNumber(s, i) == NumberInt(s, i, AfterSign(s, i), AfterInt(s, AfterSign(s, i)))

StartsAt(s, i, word) ==
    i + Len(word) - 1 <= Len(s) /\ SubSeq(s, i, i + Len(word) - 1) = word

RECURSIVE ParseValue(_, _)
RECURSIVE ParseElements(_, _, _)
RECURSIVE ElementValue(_, _, _)
RECURSIVE ElementsNext(_, _, _)
RECURSIVE ParseMembers(_, _, _)
RECURSIVE MemberKey(_, _, _)
RECURSIVE MemberColon(_, _, _, _)
RECURSIVE MemberValue(_, _, _, _)
RECURSIVE MembersNext(_, _, _)

\* The JSON value that starts at position i of s.
ParseValue(s, i) ==
    IF At(s, i) = Quote THEN ScanString(s, i + 1, "")
    ELSE IF At(s, i) = "{" THEN ParseMembers(s, SkipSpace(s, i + 1), <<>>)
    ELSE IF At(s, i) = "[" THEN ParseElements(s, SkipSpace(s, i + 1), <<>>)
    ELSE IF StartsAt(s, i, "null") THEN Parsed(i + 4, JSONValue("null", "", <<>>))
    ELSE IF StartsAt(s, i, "true") THEN Parsed(i + 4, JSONValue("bool", "true", <<>>))
    ELSE IF StartsAt(s, i, "false") THEN Parsed(i + 5, JSONValue("bool", "false", <<>>))
    ELSE IF At(s, i) = "-" \/ IsDigit(At(s, i)) THEN ParseNumber(s, i)
    ELSE Failed

\* The elements of an array from position i (after "[" or ","), acc before them.
ParseElements(s, i, acc) ==
    IF acc = <<>> /\ At(s, i) = "]" THEN Parsed(i + 1, JSONValue("array", "", <<>>))
    ELSE ElementValue(s, acc, ParseValue(s, i))

ElementValue(s, acc, v) ==
    IF ~v.ok THEN Failed ELSE ElementsNext(s, Append(acc, v.val), SkipSpace(s, v.next))

ElementsNext(s, acc, j) ==
    IF At(s, j) = "," THEN ParseElements(s, SkipSpace(s, j + 1), acc)
    ELSE IF At(s, j) = "]" THEN Parsed(j + 1, JSONValue("array", "", acc))
    ELSE Failed

\* The members of an object from position i (after "{" or ","), acc before them.
ParseMembers(s, i, acc) ==
    IF acc = <<>> /\ At(s, i) = "}" THEN Parsed(i + 1, JSONValue("object", "", <<>>))
    ELSE IF At(s, i) # Quote THEN Failed
    ELSE MemberKey(s, acc, ScanString(s, i + 1, ""))

MemberKey(s, acc, k) ==
    IF ~k.ok THEN Failed ELSE MemberColon(s, acc, k.val.str, SkipSpace(s, k.next))

MemberColon(s, acc, key, c) ==
    IF At(s, c) # ":" THEN Failed
    ELSE MemberValue(s, acc, key, ParseValue(s, SkipSpace(s, c + 1)))

MemberValue(s, acc, key, v) ==
    IF ~v.ok THEN Failed
    ELSE MembersNext(s, Append(acc, <<key, v.val>>), SkipSpace(s, v.next))

MembersNext(s, acc, j) ==
    IF At(s, j) = "," THEN ParseMembers(s, SkipSpace(s, j + 1), acc)
    ELSE IF At(s, j) = "}" THEN Parsed(j + 1, JSONValue("object", "", acc))
    ELSE Failed

\* v if it ends (but for blanks) where raw ends, else Failed.
WholeValue(raw, v) ==
    IF v.ok /\ SkipSpace(raw, v.next) = Len(raw) + 1 THEN v ELSE Failed

\* The value the whole of raw encodes; Failed when raw is not one JSON value.
DecodeJSON(raw) == WholeValue(raw, ParseValue(raw, SkipSpace(raw, 1)))

\* A variant that takes a number literal as its text.
StringOfLenient(v) ==
    IF v.ok /\ v.val.kind \in {"string", "number"} THEN [err |-> FALSE, str |-> v.val.str]
    ELSE IF v.ok /\ v.val.kind = "null" THEN [err |-> FALSE, str |-> ""]
    ELSE [err |-> TRUE, str |-> ""]

StringOf(v) ==
    IF v.ok /\ v.val.kind = "string" THEN [err |-> FALSE, str |-> v.val.str]
    ELSE IF v.ok /\ v.val.kind = "null" THEN [err |-> FALSE, str |-> ""]
    ELSE [err |-> TRUE, str |-> ""]

\* The digits of 2^1024 - 2^970, half way from the greatest float64 to
\* 2^1024: a number of this size or more does not fit a float64.
Float64Limit ==
    "179769313486231580793728971405303415079934132710037826936173" \o
    "778980444968292764750946649017977587207096330286416692887910" \o
    "946555547851940402630657488671505820681908902000708383676273" \o
    "854845817711531764475730270069855571366959622842914819860834" \o
    "936475292719074168444365510704342711559699508093042880177904" \o
    "174497792"

RECURSIVE StripZeros(_)
\* s without its leading zeros
StripZeros(s) == IF At(s, 1) = "0" THEN StripZeros(SubSeq(s, 2, Len(s))) ELSE s

\* The digit of s at place k, 0 beyond its end.
DigitAt(s, k) == IF k <= Len(s) THEN HexValue(At(s, k)) ELSE 0

RECURSIVE FractionGE(_, _, _)
\* 0.a >= 0.b for two digit strings a and b, compared from place k on
FractionGE(a, b, k) ==
    IF k > Len(a) /\ k > Len(b) THEN TRUE
    ELSE IF DigitAt(a, k) # DigitAt(b, k) THEN DigitAt(a, k) > DigitAt(b, k)
    ELSE FractionGE(a, b, k + 1)

\* The parts of a number literal n: the digits before and after the point
\* and the digits and the sign of the exponent.
IntDigits(n) == SubSeq(n, AfterSign(n, 1), AfterInt(n, AfterSign(n, 1)) - 1)
FracDigitsFrom(n, i2) == IF At(n, i2) = "." THEN SubSeq(n, i2 + 1, AfterFrac(n, i2) - 1) ELSE ""
FracDigits(n) == FracDigitsFrom(n, AfterInt(n, AfterSign(n, 1)))
ExpFrom(n, i3) == SubSeq(n, AfterExpMark(n, i3), Len(n))
ExpDigits(n) == StripZeros(ExpFrom(n, AfterFrac(n, AfterInt(n, AfterSign(n, 1)))))
ExpNegativeAt(n, i3) == At(n, i3 + 1) = "-"
ExpNegative(n) == ExpNegativeAt(n, AfterFrac(n, AfterInt(n, AfterSign(n, 1))))

\* The number is 0.sig * 10^(Len(sig) - fracLen + exp), sig without leading
\* zeros: it is out of range from 0.Float64Limit * 10^309 on.
TooLarge(sig, tenExp) ==
    sig # "" /\ (tenExp > Len(Float64Limit)
                    \/ (tenExp = Len(Float64Limit) /\ FractionGE(sig, Float64Limit, 1)))

\* strconv.ParseFloat(n, 64) returns a range error.
OutOfFloat64(n) ==
    IF Len(ExpDigits(n)) > 9
       THEN ~ExpNegative(n) /\ StripZeros(IntDigits(n) \o FracDigits(n)) # ""
       ELSE TooLarge(StripZeros(IntDigits(n) \o FracDigits(n)),
                     Len(StripZeros(IntDigits(n) \o FracDigits(n))) - Len(FracDigits(n))
                        + (IF ExpNegative(n) THEN 0 - DigitsValue(ExpDigits(n), 1, 0)
                                             ELSE DigitsValue(ExpDigits(n), 1, 0)))

RECURSIVE NumberOutOfRange(_)
\* convertNumber fails on a number of the value: d.saveError keeps the error.
NumberOutOfRange(val) ==
    CASE val.kind = "number" -> OutOfFloat64(val.str)
      [] val.kind = "array"  -> \E k \in 1..Len(val.items) : NumberOutOfRange(val.items[k])
      [] val.kind = "object" -> \E k \in 1..Len(val.items) : NumberOutOfRange(val.items[k][2])
      [] OTHER               -> FALSE

MapOf(v) ==
    IF v.ok /\ v.val.kind = "object" /\ NumberOutOfRange(v.val)
       THEN [err |-> TRUE, node |-> JSONValue("invalid", "", <<>>)]
    ELSE IF v.ok /\ v.val.kind = "object" THEN [err |-> FALSE, node |-> v.val]
    ELSE IF v.ok /\ v.val.kind = "null"
        THEN [err |-> FALSE, node |-> JSONValue("object", "", <<>>)]
    ELSE [err |-> TRUE, node |-> JSONValue("invalid", "", <<>>)]

\* json.Unmarshal(desc, &strDesc): [err, str]; null leaves strDesc empty.
UnmarshalString(raw) == StringOf(DecodeJSON(raw))

\* json.Unmarshal(desc, &adfDoc): [err, node]; null leaves the map nil.
UnmarshalMap(raw) == MapOf(DecodeJSON(raw))

----------------------------------------------------------------------------
(* internal/jira: the description normalizer.                              *)

\* node[key] of a decoded object: its last member with that key.
HasField(node, key) == \E i \in 1..Len(node.items) : node.items[i][1] = key
Field(node, key) ==
    node.items[CHOOSE i \in 1..Len(node.items) :
                  /\ node.items[i][1] = key
                  /\ \A j \in (i + 1)..Len(node.items) : node.items[j][1] # key][2]

\* node["text"].(string), "" when absent or not a string.
NodeText(node) ==
    IF HasField(node, "text") /\ Field(node, "text").kind = "string"
       THEN Field(node, "text").str ELSE ""

\* node["content"].([]interface{}), empty when absent or not an array.
NodeContent(node) ==
    IF HasField(node, "content") /\ Field(node, "content").kind = "array"
       THEN Field(node, "content").items ELSE <<>>

\* A variant that writes the space after every child, whatever its text.
WithSpaceAlways(childText) == childText \o " "

\* A child's text is written with a space after it, unless it is empty.
WithSpace(childText) == IF childText # "" THEN childText \o " " ELSE ""

RECURSIVE extractTextFromADF(_)
RECURSIVE ChildText(_)
RECURSIVE ChildrenText(_, _)

\* extractTextFromADF: the node's text, then each child's text with a space.
\* A variant that writes a node's text after its children's.
extractTextChildrenFirst(node) == ChildrenText(NodeContent(node), 1) \o NodeText(node)

extractTextFromADF(node) == NodeText(node) \o ChildrenText(NodeContent(node), 1)

ChildText(child) == IF child.kind = "object" THEN extractTextFromADF(child) ELSE ""

ChildrenText(content, k) ==
    IF k > Len(content) THEN ""
    ELSE WithSpace(ChildText(content[k])) \o ChildrenText(content, k + 1)

\* unicode.IsSpace: tab, newline, vertical tab, form feed, carriage return,
\* space, U+0085 and U+00A0 (its other members lie above U+00FF)
IsUnicodeSpace(c) ==
    c \in {"\t", "\n", CodePoint(11), "\f", "\r", " ", CodePoint(133), CodePoint(160)}

\* strings.TrimSpace, its two ends
RECURSIVE TrimLeft(_)
TrimLeft(s) == IF IsUnicodeSpace(At(s, 1)) THEN TrimLeft(SubSeq(s, 2, Len(s))) ELSE s
RECURSIVE TrimRight(_)
TrimRight(s) ==
    IF IsUnicodeSpace(At(s, Len(s))) THEN TrimRight(SubSeq(s, 1, Len(s) - 1)) ELSE s

\* The result for the two decodings: the string if desc decoded as one,
\* else the text of the document if it decoded as one, else nothing.
DescriptionText(strDesc, adfDoc) ==
    IF ~strDesc.err THEN strDesc.str
    ELSE IF ~adfDoc.err THEN extractTextFromADF(adfDoc.node)
    ELSE ""

\* A variant that trims the blanks around the result.
parseDescriptionTrimmed(desc) ==
    IF Len(desc) = 0 THEN ""
    ELSE TrimLeft(TrimRight(DescriptionText(UnmarshalString(desc), UnmarshalMap(desc))))

\* parseDescription
parseDescription(desc) ==
    IF Len(desc) = 0 THEN ""
    ELSE DescriptionText(UnmarshalString(desc), UnmarshalMap(desc))

----------------------------------------------------------------------------
(* The provider.  It holds provider.n records at positions 0 .. n-1 in a   *)
(* fixed order; the record at position p carries key p and one of three    *)
(* descriptions: a plain string, none, a document.                         *)

RecordDescriptions == <<"\"a b\"", "", "{\"content\":[{\"text\":\"a\"},{\"text\":\"b\"}]}">>

RecordDescription(p) == RecordDescriptions[(p % Len(RecordDescriptions)) + 1]

\* A record as it decodes into an Issue: DescriptionText is not a JSON field.
Issue(p) == [key |-> p, description |-> RecordDescription(p), descriptionText |-> ""]

\* How the provider fills the "total" field: "first" reports the number of
\* records on the first page only and leaves the field out afterwards.
TotalModes == {"exact", "zero", "over", "ahead", "first"}

Providers ==
    [n : 0..MaxRecords, totalMode : TotalModes, cap : {0, ServerPageCap}]

\* The records a provider returns for a request at offset s with page size k:
\* positions s .. min(s + k, n) - 1, cut to the server's own page cap if it has one.
ProviderPage(prov, s, k) ==
    LET width == IF prov.cap = 0 THEN k ELSE Min(k, prov.cap)
        last  == Min(s + width, prov.n)
        len   == IF last > s THEN last - s ELSE 0
    IN  [i \in 1..len |-> Issue(s + i - 1)]

\* The "total" field of the provider's answer.
ProviderTotal(prov, s, len) ==
    CASE prov.totalMode = "exact" -> prov.n
      [] prov.totalMode = "zero"  -> 0
      [] prov.totalMode = "over"  -> prov.n + OverReport
      [] prov.totalMode = "ahead" -> s + len + 1
      [] prov.totalMode = "first" -> IF s = 0 THEN prov.n ELSE 0

\* A 200 answer can carry a body that is not the JSON expected
\* ("undecodable") or one that cannot be read to its end ("unreadable"); a
\* json.Decoder reading from the body fails on either.
BodyFaults == {"undecodable", "unreadable"}

\* Every way one page fetch can come back: a transport failure, an HTTP
\* status, and for a 200 a body that decodes, does not, or cannot be read.
ProviderReplies(prov, s, k) ==
    LET page == ProviderPage(prov, s, k)
        body == [issues |-> page, total |-> ProviderTotal(prov, s, Len(page))]
    IN  {[fault |-> "transport", status |-> 0, body |-> body]}
        \cup {[fault |-> "none", status |-> st, body |-> body] :
                 st \in {200, 401, 403, 404, 500}}
        \cup {[fault |-> f, status |-> 200, body |-> body] : f \in BodyFaults}

----------------------------------------------------------------------------
(* The state of the parts a specification does not exercise.               *)

NoRun == [strategy |-> "", err |-> "", result |-> <<>>, requests |-> <<>>]

PageIdle ==
    /\ firstRun = NoRun
    /\ strategy = "agile"
    /\ provider = [n |-> 0, totalMode |-> "exact", cap |-> 0]
    /\ pagePc = "done"
    /\ startAt = 0
    /\ allIssues = <<>>
    /\ pageResult = <<>>
    /\ pageErr = ""
    /\ requests = <<>>
    /\ lastPage = [len |-> 0, total |-> 0]

ShiftIdle ==
    /\ workflow = <<>>
    /\ issueStatus = <<>>
    /\ lastCmd = "none"
    /\ ticketKey = ""
    /\ targetStatus = ""
    /\ statusBefore = ""
    /\ fetchOk = FALSE
    /\ returned = <<>>
    /\ transitions = <<>>
    /\ cmdRequests = <<>>
    /\ shown = <<>>
    /\ cmdErr = ""

LinkIdle ==
    /\ linkArgs = <<"", "", "">>
    /\ linkPc = "done"
    /\ linkRuns = 0
    /\ linkSent = <<>>
    /\ linkErr = ""
    /\ links = {}

NoDoc == [text |-> <<>>, content |-> <<>>]
NoReply == [fault |-> "none", status |-> 0]

DescIdle ==
    /\ descText = ""
    /\ descStyle = "raw"
    /\ descDoc = NoDoc
    /\ descRaw = ""
    /\ descOp = ""
    /\ descReply = NoReply
    /\ descErr = ""
    /\ descPc = "parsed"
    /\ descRuns = 0
    /\ descOut = ""

NoClient == [kind |-> "jira", BaseURL |-> "", Email |-> "", Username |-> "", Token |-> ""]

ReqIdle ==
    /\ client = NoClient
    /\ reqCalls = <<>>
    /\ reqSent = <<>>
    /\ reqErr = ""
    /\ reqStatus = 0

AttIdle ==
    /\ attachments = <<>>
    /\ attDownload = FALSE
    /\ attIndex = ""
    /\ attPc = "done"
    /\ attQueue = <<>>
    /\ attOps = <<>>
    /\ attSuccess = FALSE
    /\ attErr = ""
    /\ attCfg = [URL |-> "", Email |-> "", Username |-> "", Token |-> ""]
    /\ attSent = <<>>

EmptyConfig == [URL |-> "", Email |-> "", Username |-> "", Token |-> ""]
NoFile ==
    [exists |-> FALSE, mode |-> 0, lines |-> <<>>, chmodOk |-> TRUE, openOk |-> TRUE,
     scanStop |-> 0, removed |-> FALSE]

CfgIdle ==
    /\ env = [prefix \in {"JIRA", "CONFLUENCE"} |-> EmptyConfig]
    /\ cfgFile = NoFile
    /\ cfgPc = "done"
    /\ cfgModeBefore = 0
    /\ cfgFromFile = EmptyConfig
    /\ cfgEvents = <<>>
    /\ cfgOut = EmptyConfig
    /\ cfgErr = ""

UpdIdle ==
    /\ cwdDepth = 0
    /\ goMods = {}
    /\ jetInPath = FALSE
    /\ userConfirms = FALSE
    /\ updPc = "done"
    /\ updSteps = <<>>
    /\ updPrompted = FALSE
    /\ installed = "old"
    /\ updErr = ""

ViewIdle ==
    /\ viewArg = ""
    /\ viewPc = "done"
    /\ viewFormat = "readable"
    /\ viewOutput = ""
    /\ viewFetched = <<>>
    /\ viewOut = [dest |-> "", form |-> ""]
    /\ viewErr = ""

NoInitFile ==
    [exists |-> FALSE, mode |-> 0, lines |-> <<>>, openOk |-> TRUE, createOk |-> TRUE,
     scanStop |-> 0]

InitIdle ==
    /\ initFile = NoInitFile
    /\ initBefore = NoInitFile
    /\ initInput = EmptyConfig
    /\ initUmask = 0
    /\ initPc = "done"
    /\ initSaved = ""
    /\ initErr = ""

EpicIdle ==
    /\ epicArg = ""
    /\ showAllTickets = FALSE
    /\ epicFetched = <<>>
    /\ epicPc = "done"
    /\ epicKey = ""
    /\ epicShown = <<>>
    /\ epicExit = 0

NoBody == [issues |-> <<>>, total |-> 0, transitions |-> <<>>]

OpIdle ==
    /\ opName = ""
    /\ opReply = [fault |-> "none", status |-> 0, body |-> NoBody]
    /\ opPc = "done"
    /\ opErr = ""
    /\ opResult = FALSE

----------------------------------------------------------------------------
(* internal/jira: the two pagination loops.                                *)

\* "Issues[i].Fields.DescriptionText = parseDescription(Issues[i].Fields.Description)"
WithDescriptionText(issue) ==
    [issue EXCEPT !.descriptionText = parseDescription(issue.description)]

\* The descriptions a page's records carry ("" for a record without one).
Descriptions(issues) == {issues[i].description : i \in DOMAIN issues}

\* A decoded value unmarshals into interface{}: every number in it fits a
\* float64.
FitsInterface(v) == v.ok /\ ~NumberOutOfRange(v.val)

\* "json.Unmarshal(bodyBytes, &rawResp)" into map[string]interface{}: the
\* body is JSON and its numbers fit.
UnmarshalsToMap(issues) ==
    \A desc \in Descriptions(issues) : desc = "" \/ FitsInterface(DecodeJSON(desc))

\* The body unmarshals into a SearchResponse: it is JSON, the description a
\* json.RawMessage.
UnmarshalsToSearchResponse(issues) ==
    \A desc \in Descriptions(issues) : desc = "" \/ DecodeJSON(desc).ok

\* "Parse descriptions for all issues"
ParseDescriptions(issues) == [i \in DOMAIN issues |-> WithDescriptionText(issues[i])]

\* Client.SearchIssuesWithPagination: one page through /rest/api/3/search/jql.
\* Returns [err, issues, total]; err = "" stands for a nil error.
SearchIssuesWithPagination(reply) ==
    LET failed(msg) == [err |-> msg, issues |-> <<>>, total |-> 0]
    IN  IF reply.fault = "transport" THEN failed("request failed")
        ELSE IF reply.status = 401
            THEN failed("authentication failed - check your credentials")
        ELSE IF reply.status = 403
            THEN failed("access denied - you may not have permission to search issues")
        ELSE IF reply.status # 200 THEN failed("HTTP error: search failed")
        ELSE IF reply.fault = "unreadable" THEN failed("failed to read response")
        ELSE IF reply.fault = "undecodable" THEN failed("failed to decode response")
        ELSE IF ~UnmarshalsToMap(reply.body.issues) THEN failed("failed to decode response")
        ELSE [err    |-> "",
              issues |-> ParseDescriptions(reply.body.issues),
              \* "If total is 0 but we have issues, use the issue count"
              total  |-> IF reply.body.total = 0 /\ Len(reply.body.issues) > 0
                            THEN Len(reply.body.issues)
                            ELSE reply.body.total]

\* The request/status/decode part of one iteration of GetEpicChildren
\* (/rest/agile/1.0/epic/KEY/issue).  The total is taken as decoded.
AgileFetch(reply) ==
    LET failed(msg) == [err |-> msg, issues |-> <<>>, total |-> 0]
    IN  IF reply.fault = "transport" THEN failed("request failed")
        ELSE IF reply.status = 401
            THEN failed("authentication failed - check your credentials")
        ELSE IF reply.status = 403
            THEN failed("access denied - you may not have permission to view epic issues")
        ELSE IF reply.status = 404 THEN failed("epic not found")
        ELSE IF reply.status # 200 THEN failed("HTTP error: failed to get epic children")
        ELSE IF reply.fault \in BodyFaults THEN failed("failed to decode response")
        ELSE IF ~UnmarshalsToSearchResponse(reply.body.issues)
            THEN failed("failed to decode response")
        ELSE [err |-> "", issues |-> reply.body.issues, total |-> reply.body.total]

\* A variant of the loop test that is off by one.
FetchedAllOffByOne(s, len, total) == s + len + 1 >= total

\* "if startAt + len(searchResp.Issues) >= searchResp.Total { break }"
FetchedAll(s, len, total) == s + len >= total

\* "startAt += maxResults"
NextStartAt(s, maxResults) == s + maxResults

\* A variant that hands back the pages accumulated before the failure.
IssuesOnErrorPartial(acc) == acc

\* What the loops return beside the error when a page fetch fails: "return nil, err".
IssuesOnError(acc) == <<>>

\* One iteration of either loop, given the decoded page or the failure.
LoopStep(page, maxResults, wrap) ==
    /\ requests' = Append(requests, startAt)
    /\ IF page.err # ""
          THEN /\ pagePc' = "done"
               /\ pageErr' = wrap \o page.err
               /\ pageResult' = IssuesOnError(allIssues)
               /\ UNCHANGED <<startAt, allIssues, lastPage>>
          ELSE /\ allIssues' = allIssues \o page.issues
               /\ lastPage' = [len |-> Len(page.issues), total |-> page.total]
               /\ IF FetchedAll(startAt, Len(page.issues), page.total)
                     THEN /\ pagePc' = "done"
                          /\ pageResult' = allIssues'
                          /\ UNCHANGED startAt
                     ELSE /\ startAt' = NextStartAt(startAt, maxResults)
                          /\ UNCHANGED <<pagePc, pageResult>>
               /\ UNCHANGED pageErr
    /\ UNCHANGED <<strategy, provider, firstRun>>
    /\ UNCHANGED <<shiftVars, linkVars, descVars, reqVars, attVars, cfgVars, updVars, viewVars, initVars, epicVars, opVars>>

\* Client.GetEpicChildren: one iteration of its for-loop.
GetEpicChildren ==
    /\ strategy = "agile"
    /\ pagePc = "loop"
    /\ Len(requests) < MaxFetches
    /\ \E reply \in ProviderReplies(provider, startAt, AgilePageSize) :
          LoopStep(AgileFetch(reply), AgilePageSize, "")

\* Client.getEpicChildrenViaSearch: one iteration of its for-loop.
getEpicChildrenViaSearch ==
    /\ strategy = "search"
    /\ pagePc = "loop"
    /\ Len(requests) < MaxFetches
    /\ \E reply \in ProviderReplies(provider, startAt, SearchPageSize) :
          LoopStep(SearchIssuesWithPagination(reply), SearchPageSize,
                   "failed to search for child issues: ")

PageInit ==
    /\ strategy \in {"agile", "search"}
    /\ provider \in Providers
    /\ pagePc = "loop"
    /\ startAt = 0
    /\ allIssues = <<>>
    /\ pageResult = <<>>
    /\ pageErr = ""
    /\ requests = <<>>
    /\ lastPage = [len |-> 0, total |-> 0]
    /\ firstRun = NoRun

OtherStrategy(strat) == IF strat = "agile" THEN "search" ELSE "agile"

\* A caller that got the children through one strategy without an error asks
\* for them again through the other, the provider's data being the same.
otherStrategy ==
    /\ pagePc = "done"
    /\ pageErr = ""
    /\ firstRun = NoRun
    /\ firstRun' = [strategy |-> strategy, err |-> pageErr, result |-> pageResult,
                    requests |-> requests]
    /\ strategy' = OtherStrategy(strategy)
    /\ pagePc' = "loop"
    /\ startAt' = 0
    /\ allIssues' = <<>>
    /\ pageResult' = <<>>
    /\ requests' = <<>>
    /\ lastPage' = [len |-> 0, total |-> 0]
    /\ UNCHANGED <<provider, pageErr>>
    /\ UNCHANGED <<shiftVars, linkVars, descVars, reqVars, attVars, cfgVars, updVars, viewVars, initVars, epicVars, opVars>>

PageNext == GetEpicChildren \/ getEpicChildrenViaSearch \/ otherStrategy

PageStart == PageInit /\ ShiftIdle /\ LinkIdle /\ DescIdle /\ ReqIdle /\ AttIdle /\ CfgIdle /\ UpdIdle /\ ViewIdle /\ InitIdle /\ EpicIdle /\ OpIdle

SpecPage == PageStart /\ [][PageNext]_vars

----------------------------------------------------------------------------
(* cmd: the shift and close commands, and the provider's workflow.         *)

Tickets == {"LX-1"}

\* The status words typed on the command line (args[1] of shift).
Targets == {"done", "prog", "Cancelled", "done now"}

\* jira.Transition values the provider can hold: id, name, to.name.
TransitionPool ==
    { [id |-> "11", name |-> "Stop",   to |-> [name |-> "To Do"]],
      [id |-> "21", name |-> "Start",  to |-> [name |-> "In Progress"]],
      [id |-> "31", name |-> "Finish", to |-> [name |-> "Done"]],
      [id |-> "41", name |-> "Reject", to |-> [name |-> "Not Done"]],
      [id |-> "51", name |-> "Close",  to |-> [name |-> "Closed"]] }

\* A workflow is an ordered list of distinct transitions.
Workflows ==
    { w \in UNION { [1..k -> TransitionPool] : k \in 0..MaxTransitions } :
        \A i, j \in DOMAIN w : i # j => w[i] # w[j] }

\* What the provider permits for a ticket right now: the transitions of the
\* workflow that lead to a status other than the ticket's current one.
OfferedTransitions(wf, status) ==
    SelectSeq(wf, LAMBDA t : t.to.name # status)

\* The provider's answers to GET /rest/api/2/issue/KEY/transitions.
GetTransitionsReplies(key) ==
    LET body == [transitions |-> OfferedTransitions(workflow, issueStatus[key])]
    IN  {[fault |-> "transport", status |-> 0, body |-> body]}
        \cup {[fault |-> "none", status |-> st, body |-> body] : st \in {200, 404}}
        \cup {[fault |-> f, status |-> 200, body |-> body] : f \in BodyFaults}

\* The provider's answers to POST /rest/api/2/issue/KEY/transitions with a
\* transition id: 204 only for an id it currently offers for the ticket.
TransitionIssueReplies(key, id) ==
    {[fault |-> "transport", status |-> 0]}
    \cup {[fault |-> "none", status |-> st] : st \in {400}}
    \cup {[fault |-> "none", status |-> 204] : t \in
             {u \in TransitionPool :
                 /\ u.id = id
                 /\ \E i \in DOMAIN OfferedTransitions(workflow, issueStatus[key]) :
                       OfferedTransitions(workflow, issueStatus[key])[i] = u}}

\* The status of a ticket after the provider performed the transition id.
StatusAfter(id) == (CHOOSE u \in TransitionPool : u.id = id).to.name

\* Client.GetTransitions: [err, transitions]
GetTransitions(reply) ==
    LET failed(msg) == [err |-> msg, transitions |-> <<>>]
    IN  IF reply.fault = "transport" THEN failed("request failed")
        ELSE IF reply.status = 404 THEN failed("issue not found")
        ELSE IF reply.status = 401
            THEN failed("authentication failed - check your credentials")
        ELSE IF reply.status = 403
            THEN failed("access denied - you may not have permission to view transitions")
        ELSE IF reply.status # 200 THEN failed("HTTP error: failed to get transitions")
        ELSE IF reply.fault \in BodyFaults THEN failed("failed to decode response")
        ELSE [err |-> "", transitions |-> reply.body.transitions]

\* Client.TransitionIssue: the error it returns ("" for nil)
TransitionIssue(reply) ==
    IF reply.fault = "transport" THEN "request failed"
    ELSE IF reply.status = 404 THEN "issue not found"
    ELSE IF reply.status = 401 THEN "authentication failed - check your credentials"
    ELSE IF reply.status = 403
        THEN "access denied - you may not have permission to transition this issue"
    ELSE IF reply.status = 400 THEN "invalid transition - "
    ELSE IF reply.status # 204 THEN "HTTP error: failed to transition issue"
    ELSE ""

\* The smallest element of a non-empty set of indices.
First(hits) == CHOOSE i \in hits : \A j \in hits : i <= j

\* A variant of shiftCmd's loop that falls back on the first transition.
ShiftMatchOrFirst(ts, target) ==
    LET targetStatusLower == ToLower(target)
        hits == { i \in 1..Len(ts) :
                    Contains(ToLower(ts[i].to.name), targetStatusLower) }
    IN  IF hits = {} THEN 1 ELSE First(hits)

\* shiftCmd's "Find matching transition" loop: the index of matchedTransition
\* in transitions, 0 for nil.
ShiftMatch(ts, target) ==
    LET targetStatusLower == ToLower(target)
        hits == { i \in 1..Len(ts) :
                    LET transitionStatusLower == ToLower(ts[i].to.name)
                    IN  \/ transitionStatusLower = targetStatusLower
                        \/ Contains(transitionStatusLower, targetStatusLower) }
    IN  IF hits = {} THEN 0 ELSE First(hits)

closeStatuses == <<"done", "closed", "resolved", "complete">>

\* closeCmd's loop: the index of matchedTransition in transitions, 0 for nil.
CloseMatch(ts) ==
    LET hits == { i \in 1..Len(ts) :
                    LET transitionStatusLower == ToLower(ts[i].to.name)
                    IN  \E s \in 1..Len(closeStatuses) :
                           \/ transitionStatusLower = closeStatuses[s]
                           \/ Contains(transitionStatusLower, closeStatuses[s]) }
    IN  IF hits = {} THEN 0 ELSE First(hits)

\* A variant that keeps the list of an earlier invocation when it has one.
TransitionsCached(held, fetched) == IF held # <<>> THEN held ELSE fetched

\* "transitions, err := client.GetTransitions(ticketKey)": the list the
\* command works on is the one just fetched; held is what an earlier
\* invocation worked on.
TransitionsInUse(held, fetched) == fetched

GetRequest(key) == [op |-> "GetTransitions", key |-> key, id |-> ""]
PostRequest(key, id) == [op |-> "TransitionIssue", key |-> key, id |-> id]

\* The body of shiftCmd.RunE and of closeCmd.RunE; they differ in the match loop.
RunTransitionCmd(cmd, key, target, cfgOk, getReply) ==
    LET got == GetTransitions(getReply)
        ts  == TransitionsInUse(transitions, got.transitions)
        m   == IF cmd = "shift" THEN ShiftMatch(ts, target) ELSE CloseMatch(ts)
    IN  /\ lastCmd' = cmd
        /\ ticketKey' = key
        /\ targetStatus' = target
        /\ statusBefore' = issueStatus[key]
        /\ fetchOk' = (cfgOk /\ got.err = "")
        /\ returned' = IF cfgOk THEN got.transitions ELSE <<>>
        /\ UNCHANGED workflow
        /\ UNCHANGED <<pageVars, linkVars, descVars, reqVars, attVars, cfgVars, updVars, viewVars, initVars, epicVars, opVars>>
        /\ IF ~cfgOk THEN
              /\ cmdErr' = "configuration error"
              /\ transitions' = <<>>
              /\ cmdRequests' = <<>>
              /\ shown' = <<>>
              /\ UNCHANGED issueStatus
           ELSE IF got.err # "" THEN
              /\ cmdErr' = "failed to get transitions: " \o got.err
              /\ transitions' = <<>>
              /\ cmdRequests' = <<GetRequest(key)>>
              /\ shown' = <<>>
              /\ UNCHANGED issueStatus
           ELSE IF Len(ts) = 0 THEN
              /\ cmdErr' = "no transitions available"
              /\ transitions' = ts
              /\ cmdRequests' = <<GetRequest(key)>>
              /\ shown' = <<>>
              /\ UNCHANGED issueStatus
           ELSE IF m = 0 THEN
              /\ cmdErr' = "invalid transition"
              /\ transitions' = ts
              /\ cmdRequests' = <<GetRequest(key)>>
              /\ shown' = [i \in 1..Len(ts) |-> ts[i].to.name]
              /\ UNCHANGED issueStatus
           ELSE
              /\ transitions' = ts
              /\ cmdRequests' = <<GetRequest(key), PostRequest(key, ts[m].id)>>
              /\ shown' = <<>>
              /\ \E postReply \in TransitionIssueReplies(key, ts[m].id) :
                    LET err == TransitionIssue(postReply)
                    IN  /\ cmdErr' = IF err = "" THEN ""
                                     ELSE "failed to transition issue: " \o err
                        /\ issueStatus' =
                              IF postReply.fault = "none" /\ postReply.status = 204
                                 THEN [issueStatus EXCEPT ![key] = StatusAfter(ts[m].id)]
                                 ELSE issueStatus

\* jet shift TICKET-KEY STATUS
shiftCmd ==
    \E key \in Tickets, target \in Targets :
        \E getReply \in GetTransitionsReplies(key) :
            \E cfgOk \in {getReply.fault # "transport", TRUE} :
                RunTransitionCmd("shift", key, target, cfgOk, getReply)

\* jet close TICKET-KEY
closeCmd ==
    \E key \in Tickets :
        \E getReply \in GetTransitionsReplies(key) :
            \E cfgOk \in {getReply.fault # "transport", TRUE} :
                RunTransitionCmd("close", key, "", cfgOk, getReply)

ShiftInit ==
    /\ workflow \in Workflows
    /\ issueStatus = [k \in Tickets |-> "Open"]
    /\ lastCmd = "none"
    /\ ticketKey = ""
    /\ targetStatus = ""
    /\ statusBefore = ""
    /\ fetchOk = FALSE
    /\ returned = <<>>
    /\ transitions = <<>>
    /\ cmdRequests = <<>>
    /\ shown = <<>>
    /\ cmdErr = ""

ShiftNext == shiftCmd \/ closeCmd

ShiftStart == ShiftInit /\ PageIdle /\ LinkIdle /\ DescIdle /\ ReqIdle /\ AttIdle /\ CfgIdle /\ UpdIdle /\ ViewIdle /\ InitIdle /\ EpicIdle /\ OpIdle

SpecShift == ShiftStart /\ [][ShiftNext]_vars

----------------------------------------------------------------------------
(* cmd: the link command, and Client.LinkIssues.                           *)

LinkTickets == {"PROJ-1", "PROJ-2", "PROJ-3"}

\* The relationship words typed on the command line (args[1] of link).
LinkWords ==
    { "blocks", "is-blocked-by", "relates-to", "relates", "duplicates",
      "is-duplicated-by", "clones", "is-cloned-by", "causes", "is-caused-by",
      "Blocks", "IS-BLOCKED-BY", "Is-Cloned-By", "RELATES-TO",
      "blocked-by", "is-blocks", "is-relates-to", "depends-on", "is-", "" }

\* "linkTypeMap := map[string]string{...}"
linkTypeMap ==
    ("blocks" :> "Blocks") @@ ("is-blocked-by" :> "Blocks") @@
    ("relates-to" :> "Relates") @@ ("relates" :> "Relates") @@
    ("duplicates" :> "Duplicate") @@ ("is-duplicated-by" :> "Duplicate") @@
    ("clones" :> "Cloners") @@ ("is-cloned-by" :> "Cloners") @@
    ("causes" :> "Causes") @@ ("is-caused-by" :> "Causes")

\* A variant that looks the word up as typed.
RelationshipAsTyped(arg) == arg

\* "relationship := strings.ToLower(args[1])"
Relationship(arg) == ToLower(arg)

\* "isInward := strings.HasPrefix(relationship, "is-")"
IsInward(relationship) == HasPrefix(relationship, "is-")

\* A variant of the request body that ignores the direction flag.
LinkRequestUnswapped(inwardIssue, outwardIssue, linkType, isInward) ==
    [type         |-> [name |-> linkType],
     inwardIssue  |-> [key |-> inwardIssue],
     outwardIssue |-> [key |-> outwardIssue]]

\* Client.LinkIssues: the IssueLinkRequest it builds; the issues are swapped
\* when the relationship is inward.
LinkRequest(inwardIssue, outwardIssue, linkType, isInward) ==
    [type         |-> [name |-> linkType],
     inwardIssue  |-> [key |-> IF isInward THEN outwardIssue ELSE inwardIssue],
     outwardIssue |-> [key |-> IF isInward THEN inwardIssue ELSE outwardIssue]]

\* The provider's answers to POST /rest/api/2/issueLink.
LinkReplies ==
    {[fault |-> "transport", status |-> 0]}
    \cup {[fault |-> "none", status |-> st] : st \in {201, 400, 401, 403, 404, 500}}

\* Client.LinkIssues: the error it returns for a reply ("" for nil)
LinkIssues(reply) ==
    IF reply.fault = "transport" THEN "request failed"
    ELSE IF reply.status = 401 THEN "authentication failed - check your credentials"
    ELSE IF reply.status = 403
        THEN "access denied - you may not have permission to link issues"
    ELSE IF reply.status = 404 THEN "issue not found - "
    ELSE IF reply.status = 400 THEN "invalid link request - "
    ELSE IF reply.status # 201 THEN "HTTP error: failed to create link - "
    ELSE ""

\* The request linkCmd.RunE submits for its three arguments; <<>> when the
\* relationship word is not a key of linkTypeMap.
LinkSubmission(args) ==
    LET inwardIssue  == args[1]
        relationship == Relationship(args[2])
        outwardIssue == args[3]
    IN  IF relationship \notin DOMAIN linkTypeMap THEN <<>>
        ELSE <<LinkRequest(inwardIssue, outwardIssue, linkTypeMap[relationship],
                           IsInward(relationship))>>

\* jet link TICKET-KEY RELATIONSHIP TICKET-KEY
linkCmd ==
    /\ linkPc = "start"
    /\ linkPc' = "done"
    /\ UNCHANGED <<linkArgs, linkRuns>>
    /\ UNCHANGED <<pageVars, shiftVars, descVars, reqVars, attVars, cfgVars, updVars, viewVars, initVars, epicVars, opVars>>
    /\ IF LinkSubmission(linkArgs) = <<>> THEN
          /\ linkErr' = "unknown relationship type '" \o Relationship(linkArgs[2]) \o "'"
          /\ UNCHANGED <<linkSent, links>>
       ELSE
          \E cfgOk \in BOOLEAN :
             IF ~cfgOk THEN
                /\ linkErr' = "configuration error"
                /\ UNCHANGED <<linkSent, links>>
             ELSE
                \E reply \in LinkReplies :
                   /\ linkSent' = linkSent \o LinkSubmission(linkArgs)
                   /\ linkErr' = LinkIssues(reply)
                   /\ links' = IF reply.fault = "none" /\ reply.status = 201
                                  THEN links \cup {LinkSubmission(linkArgs)[1]}
                                  ELSE links

\* A new invocation of the command once the previous one has ended.
linkInvoke ==
    /\ linkPc = "done"
    /\ linkRuns < MaxLinkRuns
    /\ linkPc' = "start"
    /\ linkRuns' = linkRuns + 1
    /\ linkArgs' \in LinkTickets \X {"blocks", "is-blocked-by", "relates-to"} \X LinkTickets
    /\ linkSent' = <<>>
    /\ linkErr' = ""
    /\ UNCHANGED links
    /\ UNCHANGED <<pageVars, shiftVars, descVars, reqVars, attVars, cfgVars, updVars, viewVars, initVars, epicVars, opVars>>

LinkInit ==
    /\ linkArgs \in LinkTickets \X LinkWords \X LinkTickets
    /\ linkPc = "start"
    /\ linkRuns = 1
    /\ linkSent = <<>>
    /\ linkErr = ""
    /\ links = {}

LinkNext == linkCmd \/ linkInvoke

LinkStart == LinkInit /\ PageIdle /\ ShiftIdle /\ DescIdle /\ ReqIdle /\ AttIdle /\ CfgIdle /\ UpdIdle /\ ViewIdle /\ InitIdle /\ EpicIdle /\ OpIdle

SpecLink == LinkStart /\ [][LinkNext]_vars

----------------------------------------------------------------------------
(* The descriptions a provider holds, and GetIssue.                        *)

\* The provider's side: the characters of description texts, and the ways a
\* text is written as a JSON string.
TextAlphabet == {"a", "n", Quote, Backslash, "/", "\n", " ", CodePoint(8), CodePoint(127)}

RECURSIVE TextsUpTo(_)
TextsUpTo(n) ==
    IF n = 0 THEN {""}
    ELSE TextsUpTo(n - 1) \cup {t \o c : t \in TextsUpTo(n - 1), c \in TextAlphabet}

EncodingStyles == {"minimal", "slash", "unicode", "padded"}

EncodeChar(c, style) ==
    CASE c = Quote     -> Backslash \o Quote
      [] c = Backslash -> Backslash \o Backslash
      [] c = "\n"      -> Backslash \o "n"
      [] c = "/"       -> IF style = "slash" THEN Backslash \o "/" ELSE "/"
      [] c = "a"       -> IF style = "unicode" THEN Backslash \o "u0061" ELSE "a"
      [] c = "n"       -> IF style = "unicode" THEN Backslash \o "u006E" ELSE "n"
      [] c = CodePoint(8)   -> IF style = "unicode" THEN Backslash \o "u0008" ELSE Backslash \o "b"
      [] c = CodePoint(127) -> IF style = "unicode" THEN Backslash \o "u007F" ELSE c
      [] OTHER         -> c

RECURSIVE EncodeChars(_, _)
EncodeChars(text, style) ==
    IF Len(text) = 0 THEN ""
    ELSE EncodeChar(At(text, 1), style) \o EncodeChars(SubSeq(text, 2, Len(text)), style)

\* A JSON string literal for text.
EncodeJSONString(text, style) ==
    IF style = "padded"
       THEN " " \o Quote \o EncodeChars(text, style) \o Quote \o "\n"
       ELSE Quote \o EncodeChars(text, style) \o Quote

\* Other description values as received: documents, other JSON, malformed bytes.
RawSamples ==
    { "", "null", "12", "-0.5e3", "true", "[]", "[\"a\"]", "{}", "abc", "\"a", "\"a\" x",
      "{\"text\":\"a\"}", "{\"text\":\"a\",\"content\":[{\"text\":\"n\"},{},{\"text\":\"a\"}]}",
      "{\"content\":[1,{\"content\":[{\"text\":\"n\"}]}],\"text\":7,\"text\":\"a \"}",
      "{\"text\":\"a\",}", "\"\\q\"", "\"\\u0041\\t\"", "false", "0", " [1, 2.5] ", " null",
      "{\"text\":\"a\",\"x\":\"\\b\"}", "\"\\u0060\\u007f\"", "1e999",
      "{\"text\":\"a\",\"n\":[-1E400]}", "{\"text\":\"a\",\"n\":1e-999}",
      "[0, -1E400]" }

\* The provider's documents: a node has an optional text (a sequence of at
\* most one string) and an ordered list of child nodes.
NodeTexts == {<<>>, <<"a">>, <<"b">>}

RECURSIVE DocsOfSize(_)
RECURSIVE ForestsOfSize(_)

\* The documents of n nodes, and the lists of documents of m nodes in all.
DocsOfSize(n) == {[text |-> t, content |-> f] : t \in NodeTexts, f \in ForestsOfSize(n - 1)}

ForestsOfSize(m) ==
    IF m = 0 THEN {<<>>}
    ELSE UNION {{<<d>> \o r : d \in DocsOfSize(k), r \in ForestsOfSize(m - k)} : k \in 1..m}

DocTrees == UNION {DocsOfSize(n) : n \in 1..MaxDocNodes}

\* "doc" writes a node with only the members it has, text first; "typed"
\* writes a type, always a content list, the text last, and blanks.
DocStyles == {"doc", "typed"}

Joined(a, b) == IF a = "" THEN b ELSE IF b = "" THEN a ELSE a \o "," \o b

EncodeDocText(doc) ==
    IF doc.text = <<>> THEN "" ELSE "\"text\":" \o EncodeJSONString(doc.text[1], "minimal")

RECURSIVE EncodeDoc(_, _)
RECURSIVE EncodeDocs(_, _, _)

EncodeDoc(doc, style) ==
    IF style = "doc"
       THEN "{" \o Joined(EncodeDocText(doc),
                          IF doc.content = <<>> THEN ""
                          ELSE "\"content\":[" \o EncodeDocs(doc.content, 1, style) \o "]")
                \o "}"
       ELSE "{ \"type\": \"node\", \"content\": [" \o EncodeDocs(doc.content, 1, style) \o "]"
                \o (IF doc.text = <<>> THEN "" ELSE ", " \o EncodeDocText(doc)) \o " }"

EncodeDocs(docs, k, style) ==
    IF k > Len(docs) THEN ""
    ELSE EncodeDoc(docs[k], style) \o (IF k < Len(docs) THEN "," ELSE "")
            \o EncodeDocs(docs, k + 1, style)

\* The provider's replies to the GetIssue request.
GetIssueReplies ==
    {[fault |-> "transport", status |-> 0]}
        \cup {[fault |-> f, status |-> 200] : f \in BodyFaults}
        \cup {[fault |-> "none", status |-> st] : st \in {200, 401, 403, 404, 500}}

\* The response body decodes into an Issue: it is JSON, with the description
\* (when the field is there at all) a JSON value.
BodyDecodes(reply, raw) == reply.fault = "none" /\ (raw = "" \/ DecodeJSON(raw).ok)

\* GetIssue's error for a reply whose body carries the description raw.
GetIssueError(reply, raw) ==
    IF reply.fault = "transport" THEN "request failed"
    ELSE IF reply.status = 404 THEN "issue not found"
    ELSE IF reply.status = 401 THEN "authentication failed"
    ELSE IF reply.status = 403 THEN "access denied"
    ELSE IF reply.status # 200 THEN "HTTP request failed"
    ELSE IF ~BodyDecodes(reply, raw) THEN "failed to decode response"
    ELSE ""

\* GetIssue / SearchIssuesWithPagination: "DescriptionText = parseDescription(Description)"
normalize ==
    /\ descPc = "raw"
    /\ descPc' = "parsed"
    /\ descOut' = parseDescription(descRaw)
    /\ descErr' = ""
    /\ descOp' = "GetIssue"
    /\ UNCHANGED <<descText, descStyle, descDoc, descRaw, descRuns>>
    /\ UNCHANGED <<pageVars, shiftVars, linkVars, reqVars, attVars, cfgVars, updVars, viewVars, initVars, epicVars, opVars>>

\* GetIssue: the request, the status checks, the decoding, the description.
GetIssue ==
    /\ descPc = "raw"
    /\ \E reply \in GetIssueReplies :
        /\ descReply' = reply
        /\ IF GetIssueError(reply, descRaw) # ""
              THEN /\ descPc' = "failed"
                   /\ descErr' = GetIssueError(reply, descRaw)
                   /\ descOp' = "GetIssue"
                   /\ UNCHANGED <<descText, descStyle, descDoc, descRaw, descRuns, descOut>>
                   /\ UNCHANGED <<pageVars, shiftVars, linkVars, reqVars, attVars, cfgVars, updVars, viewVars, initVars, epicVars, opVars>>
              ELSE normalize

\* The provider's answer to a search that finds the ticket and nothing
\* else: one page with the one record.
TicketPage(reply, raw) ==
    [fault |-> reply.fault, status |-> reply.status,
     body |-> [issues |-> <<[key |-> 0, description |-> raw, descriptionText |-> ""]>>,
               total |-> 1]]

\* A search operation has come back with page: an error, or the records.
Searched(op, reply, page) ==
    /\ descOp' = op
    /\ descReply' = reply
    /\ descErr' = page.err
    /\ descPc' = IF page.err = "" THEN "searched" ELSE "failed"
    /\ descOut' = IF page.err = "" THEN page.issues[1].descriptionText ELSE descOut
    /\ UNCHANGED <<descText, descStyle, descDoc, descRaw, descRuns>>
    /\ UNCHANGED <<pageVars, shiftVars, linkVars, reqVars, attVars, cfgVars, updVars, viewVars, initVars, epicVars, opVars>>

\* Client.SearchIssues (SearchIssuesWithPagination from offset 0), the
\* ticket being the one record the filter finds.
SearchIssues ==
    /\ descPc = "raw"
    /\ \E reply \in GetIssueReplies :
          Searched("SearchIssues", reply,
                   SearchIssuesWithPagination(TicketPage(reply, descRaw)))

\* Client.GetEpicChildren on an epic whose one child is the ticket: the
\* first page holds everything, and the records are returned as decoded.
EpicChild ==
    /\ descPc = "raw"
    /\ \E reply \in GetIssueReplies :
          Searched("GetEpicChildren", reply, AgileFetch(TicketPage(reply, descRaw)))

\* The flat text is stored as the ticket's description and fetched again.
renormalize ==
    /\ descPc = "parsed"
    /\ descRuns < MaxRenormalize
    /\ descRuns' = descRuns + 1
    /\ descRaw' = EncodeJSONString(descOut, IF descStyle \in EncodingStyles THEN descStyle
                                                                                ELSE "minimal")
    /\ descPc' = "raw"
    /\ descReply' = NoReply
    /\ UNCHANGED <<descText, descStyle, descDoc, descOp, descErr, descOut>>
    /\ UNCHANGED <<pageVars, shiftVars, linkVars, reqVars, attVars, cfgVars, updVars, viewVars, initVars, epicVars, opVars>>

DescInit ==
    /\ descStyle \in EncodingStyles \cup DocStyles \cup {"raw"}
    /\ IF descStyle = "raw"
          THEN descText = "" /\ descDoc = NoDoc /\ descRaw \in RawSamples
          ELSE IF descStyle \in DocStyles
          THEN descText = "" /\ descDoc \in DocTrees /\ descRaw = EncodeDoc(descDoc, descStyle)
          ELSE descText \in TextsUpTo(MaxTextLen) /\ descDoc = NoDoc
               /\ descRaw = EncodeJSONString(descText, descStyle)
    /\ descOp = ""
    /\ descReply = NoReply
    /\ descErr = ""
    /\ descPc = "raw"
    /\ descRuns = 0
    /\ descOut = ""

DescNext == GetIssue \/ SearchIssues \/ EpicChild \/ renormalize

DescStart == DescInit /\ PageIdle /\ ShiftIdle /\ LinkIdle /\ ReqIdle /\ AttIdle /\ CfgIdle /\ UpdIdle /\ ViewIdle /\ InitIdle /\ EpicIdle /\ OpIdle

SpecDesc == DescStart /\ [][DescNext]_vars

----------------------------------------------------------------------------
(* net/url: Parse.  A parsed URL is [err, Scheme, Opaque, User, Host,      *)
(* Path, RawQuery, Fragment], User being the userinfo as it is written.    *)
(* A byte that a percent escape denotes is written as the character of     *)
(* that code point.                                                        *)

\* stringContainsCTLByte: a byte below 0x20, or 0x7f
ContainsCTLByte(s) == \E i \in 1..Len(s) : IsControl(At(s, i)) \/ At(s, i) = CodePoint(127)

\* strings.Index, counted from 1: 0 when substr does not occur
RECURSIVE IndexFrom(_, _, _)
IndexFrom(s, substr, i) ==
    IF i + Len(substr) - 1 > Len(s) THEN 0
    ELSE IF StartsAt(s, i, substr) THEN i
    ELSE IndexFrom(s, substr, i + 1)

Index(s, substr) == IndexFrom(s, substr, 1)

\* strings.LastIndex, counted from 1: 0 when substr does not occur
RECURSIVE LastIndexFrom(_, _, _)
LastIndexFrom(s, substr, i) ==
    IF i < 1 THEN 0
    ELSE IF StartsAt(s, i, substr) THEN i
    ELSE LastIndexFrom(s, substr, i - 1)

LastIndex(s, substr) == LastIndexFrom(s, substr, Len(s) - Len(substr) + 1)

\* strings.Cut: the part before the first sep (all of s without one) ...
BeforeAt(s, i) == IF i = 0 THEN s ELSE SubSeq(s, 1, i - 1)
Before(s, sep) == BeforeAt(s, Index(s, sep))
\* ... and the part after it ("" without one)
AfterAt(s, sep, i) == IF i = 0 THEN "" ELSE SubSeq(s, i + Len(sep), Len(s))
After(s, sep) == AfterAt(s, sep, Index(s, sep))

UpperLetterSet == CharsOf(UpperLetters)
LetterSet == CharsOf(UpperLetters \o LowerLetters)
IsUpper(c) == c \in UpperLetterSet
IsLetter(c) == c \in LetterSet

URLError(msg) ==
    [err |-> msg, Scheme |-> "", Opaque |-> "", User |-> "", Host |-> "", Path |-> "",
     RawQuery |-> "", Fragment |-> ""]

URL(scheme, opaque, user, host, path, query, frag) ==
    [err |-> "", Scheme |-> scheme, Opaque |-> opaque, User |-> user, Host |-> host,
     Path |-> path, RawQuery |-> query, Fragment |-> frag]

RECURSIVE SchemeEnd(_, _)
\* getScheme: the place of the colon that ends the scheme, 0 when the string
\* has no scheme, -1 for "missing protocol scheme".
SchemeEnd(s, i) ==
    IF i > Len(s) THEN 0
    ELSE IF IsLetter(At(s, i)) THEN SchemeEnd(s, i + 1)
    ELSE IF IsDigit(At(s, i)) \/ At(s, i) \in {"+", "-", "."}
         THEN IF i = 1 THEN 0 ELSE SchemeEnd(s, i + 1)
    ELSE IF At(s, i) = ":" THEN IF i = 1 THEN -1 ELSE i
    ELSE 0

\* validOptionalPort
validOptionalPort(port) ==
    port = "" \/ (At(port, 1) = ":" /\ \A i \in 2..Len(port) : IsDigit(At(port, i)))

\* shouldEscape(c, encodeHost) is false: the bytes a host may hold as they are
HostBytes == "-_.~!$&'()*+,;=:[]<>\""
HostByteSet == CharsOf(UpperLetters \o LowerLetters \o "0123456789" \o HostBytes)
IsHostByte(c) == c \in HostByteSet

\* validUserinfo
UserinfoBytes == "-._:~!$&'()*+,;=%@"
UserinfoByteSet == CharsOf(UpperLetters \o LowerLetters \o "0123456789" \o UserinfoBytes)
validUserinfo(s) == \A i \in 1..Len(s) : At(s, i) \in UserinfoByteSet

\* A character of ASCII
AsciiCharSet == CharsOf(SubSeq(Latin1, 1, 127))
IsAsciiChar(c) == c \in AsciiCharSet

EscapeResult(err, str) == [err |-> err, str |-> str]

\* The byte the escape at place i denotes.
EscapedByte(s, i) == 16 * HexValue(At(s, i + 1)) + HexValue(At(s, i + 2))

RECURSIVE unescape(_, _, _, _)
RECURSIVE unescapePercent(_, _, _, _)

\* unescape(s, mode) from place i on, acc being what is decoded so far:
\* [err, str].  The modes are "host", "zone" and "other" (path, fragment,
\* user and password, which differ in nothing here).
unescape(s, i, mode, acc) ==
    IF i > Len(s) THEN EscapeResult("", acc)
    ELSE IF At(s, i) = "%" THEN unescapePercent(s, i, mode, acc)
    ELSE IF mode \in {"host", "zone"} /\ IsAsciiChar(At(s, i)) /\ ~IsHostByte(At(s, i))
       THEN EscapeResult("invalid character in host name", "")
    ELSE unescape(s, i + 1, mode, acc \o At(s, i))

\* The case of a percent sign at place i.
unescapePercent(s, i, mode, acc) ==
    IF ~(IsHex(At(s, i + 1)) /\ IsHex(At(s, i + 2)))
       THEN EscapeResult("invalid URL escape", "")
    ELSE IF mode = "host" /\ HexValue(At(s, i + 1)) < 8 /\ SubSeq(s, i, i + 2) # "%25"
       THEN EscapeResult("invalid URL escape", "")
    ELSE IF mode = "zone" /\ SubSeq(s, i, i + 2) # "%25" /\ EscapedByte(s, i) # 32
            /\ ~IsHostByte(CodePoint(EscapedByte(s, i)))
       THEN EscapeResult("invalid URL escape", "")
    ELSE unescape(s, i + 3, mode, acc \o CodePoint(EscapedByte(s, i)))

\* parseHost on an IP literal with a zone: close is the place of the last
\* "]" and zone the place of the first "%25" before it.
parseZoneHost(host, close, zone) ==
    IF unescape(SubSeq(host, 1, zone - 1), 1, "host", "").err # ""
       THEN unescape(SubSeq(host, 1, zone - 1), 1, "host", "")
    ELSE IF unescape(SubSeq(host, zone, close - 1), 1, "zone", "").err # ""
       THEN unescape(SubSeq(host, zone, close - 1), 1, "zone", "")
    ELSE IF unescape(SubSeq(host, close, Len(host)), 1, "host", "").err # ""
       THEN unescape(SubSeq(host, close, Len(host)), 1, "host", "")
    ELSE EscapeResult("", unescape(SubSeq(host, 1, zone - 1), 1, "host", "").str
                            \o unescape(SubSeq(host, zone, close - 1), 1, "zone", "").str
                            \o unescape(SubSeq(host, close, Len(host)), 1, "host", "").str)

\* parseHost on a host that begins with "[", close being the place of its
\* last "]" (0 without one).
parseBracketHost(host, close) ==
    IF close = 0 THEN EscapeResult("missing ']' in host", "")
    ELSE IF ~validOptionalPort(SubSeq(host, close + 1, Len(host)))
       THEN EscapeResult("invalid port after host", "")
    ELSE IF Index(SubSeq(host, 1, close - 1), "%25") # 0
       THEN parseZoneHost(host, close, Index(SubSeq(host, 1, close - 1), "%25"))
    ELSE unescape(host, 1, "host", "")

\* parseHost: [err, str]
parseHost(host) ==
    IF HasPrefix(host, "[") THEN parseBracketHost(host, LastIndex(host, "]"))
    ELSE IF LastIndex(host, ":") # 0
            /\ ~validOptionalPort(SubSeq(host, LastIndex(host, ":"), Len(host)))
       THEN EscapeResult("invalid port after host", "")
    ELSE unescape(host, 1, "host", "")

\* parseAuthority: the host is what follows the last @, the userinfo what
\* stands before it
AuthorityHost(authority) ==
    SubSeq(authority, LastIndex(authority, "@") + 1, Len(authority))
AuthorityUser(authority) ==
    IF LastIndex(authority, "@") = 0 THEN ""
    ELSE SubSeq(authority, 1, LastIndex(authority, "@") - 1)

\* parseAuthority: "" or the error, host being what parseHost gave
parseAuthorityError(authority, host) ==
    IF host.err # "" THEN host.err
    ELSE IF LastIndex(authority, "@") = 0 THEN ""
    ELSE IF ~validUserinfo(AuthorityUser(authority)) THEN "net/url: invalid userinfo"
    ELSE unescape(AuthorityUser(authority), 1, "other", "").err

\* setPath on a URL whose other parts are known, path being what unescape
\* gave for the path
SetPath(scheme, user, host, path, query, frag) ==
    IF path.err # "" THEN URLError(path.err)
    ELSE URL(scheme, "", user, host, path.str, query, frag)

WithPath(scheme, user, host, path, query, frag) ==
    SetPath(scheme, user, host, unescape(path, 1, "other", ""), query, frag)

\* parse, from the authority on: the authority, what parseHost gave for its
\* host, and the rest
ParseAuthority(scheme, authority, host, rest, query, frag) ==
    IF parseAuthorityError(authority, host) # ""
       THEN URLError(parseAuthorityError(authority, host))
       ELSE WithPath(scheme, AuthorityUser(authority), host.str, rest, query, frag)

\* parse, from the authority on: afterSlashes is what follows the two
\* slashes, slash the place of its first slash (0 without one)
ParseAuthorityAt(scheme, afterSlashes, slash, query, frag) ==
    ParseAuthority(scheme, BeforeAt(afterSlashes, slash),
                   parseHost(AuthorityHost(BeforeAt(afterSlashes, slash))),
                   IF slash = 0 THEN "" ELSE SubSeq(afterSlashes, slash, Len(afterSlashes)),
                   query, frag)

ParseAuthorityPath(scheme, afterSlashes, query, frag) ==
    ParseAuthorityAt(scheme, afterSlashes, Index(afterSlashes, "/"), query, frag)

\* parse, after scheme and query were split off
ParseHier(scheme, rest, query, frag) ==
    IF ~HasPrefix(rest, "/") /\ scheme # ""
       THEN URL(scheme, rest, "", "", "", query, frag)
    ELSE IF ~HasPrefix(rest, "/") /\ Contains(Before(rest, "/"), ":")
       THEN URLError("first path segment in URL cannot contain colon")
    ELSE IF HasPrefix(rest, "//") /\ (scheme # "" \/ ~HasPrefix(rest, "///"))
       THEN ParseAuthorityPath(scheme, SubSeq(rest, 3, Len(rest)), query, frag)
    ELSE WithPath(scheme, "", "", rest, query, frag)

\* parse, after getScheme: colon is what SchemeEnd gave
ParseScheme(u, colon, frag) ==
    IF colon = -1 THEN URLError("missing protocol scheme")
    ELSE IF colon = 0 THEN ParseHier("", Before(u, "?"), After(u, "?"), frag)
    ELSE ParseHier(ToLower(SubSeq(u, 1, colon - 1)),
                   Before(SubSeq(u, colon + 1, Len(u)), "?"),
                   After(SubSeq(u, colon + 1, Len(u)), "?"), frag)

\* parse(rawURL, false), the fragment already cut off
parse(u, frag) ==
    IF ContainsCTLByte(u) THEN URLError("net/url: invalid control character in URL")
    ELSE IF u = "*" THEN URL("", "", "", "", "*", "", frag)
    ELSE ParseScheme(u, SchemeEnd(u, 1), frag)

\* setFragment on what parse gave, frag being what unescape gave for the
\* fragment
SetFragment(url, frag) ==
    IF url.err # "" THEN url
    ELSE IF frag.err # "" THEN URLError(frag.err)
    ELSE [url EXCEPT !.Fragment = frag.str]

\* url.Parse: the fragment is cut off, and set when the rest has parsed
Parse(rawURL) ==
    SetFragment(parse(Before(rawURL, "#"), ""), unescape(After(rawURL, "#"), 1, "other", ""))

----------------------------------------------------------------------------
(* net/http: what NewRequest and Client.Do refuse before anything is sent. *)

\* http.NewRequest: its error, "" for nil.  The methods the program passes
\* are valid, so it fails when url.Parse does.
NewRequestError(url) == Parse(url).err

\* removeEmptyPort
removeEmptyPort(host) ==
    IF LastIndex(host, ":") > LastIndex(host, "]") /\ HasSuffix(host, ":")
       THEN SubSeq(host, 1, Len(host) - 1)
       ELSE host

\* Transport.roundTrip: the error with which a request that NewRequest
\* built is turned down before a connection is made, "" if it is not.
RoundTripErrorOf(u) ==
    IF u.Scheme \notin {"http", "https"} THEN "unsupported protocol scheme"
    ELSE IF removeEmptyPort(u.Host) = "" THEN "http: no Host in request URL"
    ELSE ""

RoundTripError(url) == RoundTripErrorOf(Parse(url))

----------------------------------------------------------------------------
(* internal/jira and internal/confluence: NewClient and makeRequest.  The  *)
(* two clients' makeRequest are the same code.                             *)

RECURSIVE TrimRightSlash(_)
\* strings.TrimRight(s, "/")
TrimRightSlash(s) ==
    IF At(s, Len(s)) = "/" THEN TrimRightSlash(SubSeq(s, 1, Len(s) - 1)) ELSE s

\* NewClient
NewClient(kind, baseURL, email, username, token) ==
    [kind |-> kind, BaseURL |-> TrimRightSlash(baseURL), Email |-> email,
     Username |-> username, Token |-> token]

BaseURLs ==
    {"https://jira.example.com", "https://jira.example.com/", "https://jira.example.com\n",
     "https://jira.example.com:x", "jira.example.com"}
Emails == {"", "me@example.com"}
Usernames == {"", "me"}
Tokens == {"", "tok"}
Methods == {"GET", "POST"}
Endpoints == {"/rest/api/2/myself", "/api/v2/pages/1"}

CredentialsError == "authentication credentials not provided"

\* A variant that prefers the username to the email.
BasicAuthUsernameFirst(c) ==
    IF c.Username # "" /\ c.Token # "" THEN <<c.Username>>
    ELSE IF c.Email # "" /\ c.Token # "" THEN <<c.Email>>
    ELSE <<>>

\* "Set authentication": the basic-auth user, <<>> when no header can be set.
BasicAuthUser(c) ==
    IF c.Email # "" /\ c.Token # "" THEN <<c.Email>>
    ELSE IF c.Username # "" /\ c.Token # "" THEN <<c.Username>>
    ELSE <<>>

NetworkRequest(c, method, endpoint, hasBody, user) ==
    [method |-> method, url |-> c.BaseURL \o endpoint, user |-> user, password |-> c.Token,
     hasBody |-> hasBody]

\* What the network does with a request: no response, or one with a status.
TransportReplies ==
    {[fault |-> "transport", status |-> 0]}
        \cup {[fault |-> "none", status |-> st] : st \in {200, 401}}

\* makeRequest: [err, sent, status].  The bodies the clients pass are maps of
\* strings, which always marshal.
makeRequest(c, method, endpoint, hasBody, reply) ==
    IF NewRequestError(c.BaseURL \o endpoint) # ""
       THEN [err |-> "failed to create request", sent |-> <<>>, status |-> 0]
    ELSE IF BasicAuthUser(c) = <<>>
       THEN [err |-> CredentialsError, sent |-> <<>>, status |-> 0]
    ELSE IF RoundTripError(c.BaseURL \o endpoint) # ""
       THEN [err |-> "request failed", sent |-> <<>>, status |-> 0]
    ELSE IF reply.fault = "transport"
       THEN [err    |-> "request failed",
             sent   |-> <<NetworkRequest(c, method, endpoint, hasBody, BasicAuthUser(c)[1])>>,
             status |-> 0]
    ELSE [err    |-> "",
          sent   |-> <<NetworkRequest(c, method, endpoint, hasBody, BasicAuthUser(c)[1])>>,
          status |-> reply.status]

\* One call of makeRequest on the client.
Call(method, endpoint, hasBody, reply) ==
    /\ reqCalls' = Append(reqCalls, [method |-> method, endpoint |-> endpoint,
                                     hasBody |-> hasBody])
    /\ reqSent' = reqSent \o makeRequest(client, method, endpoint, hasBody, reply).sent
    /\ reqErr' = makeRequest(client, method, endpoint, hasBody, reply).err
    /\ reqStatus' = makeRequest(client, method, endpoint, hasBody, reply).status
    /\ UNCHANGED client
    /\ UNCHANGED <<pageVars, shiftVars, linkVars, descVars, attVars, cfgVars, updVars, viewVars, initVars, epicVars, opVars>>

\* internal/jira: Client.makeRequest
jiraMakeRequest ==
    /\ client.kind = "jira"
    /\ Len(reqCalls) < MaxCalls
    /\ \E method \in Methods, endpoint \in Endpoints, reply \in TransportReplies :
          Call(method, endpoint, method = "POST", reply)

\* internal/confluence: Client.makeRequest
confluenceMakeRequest ==
    /\ client.kind = "confluence"
    /\ Len(reqCalls) < MaxCalls
    /\ \E method \in Methods, endpoint \in Endpoints, reply \in TransportReplies :
          Call(method, endpoint, method = "POST", reply)

ReqInit ==
    /\ \E kind \in {"jira", "confluence"}, baseURL \in BaseURLs, email \in Emails,
          username \in Usernames, token \in Tokens :
          client = NewClient(kind, baseURL, email, username, token)
    /\ reqCalls = <<>>
    /\ reqSent = <<>>
    /\ reqErr = ""
    /\ reqStatus = 0

ReqNext == jiraMakeRequest \/ confluenceMakeRequest

ReqStart == ReqInit /\ PageIdle /\ ShiftIdle /\ LinkIdle /\ DescIdle /\ AttIdle /\ CfgIdle /\ UpdIdle /\ ViewIdle /\ InitIdle /\ EpicIdle /\ OpIdle

SpecReq == ReqStart /\ [][ReqNext]_vars

----------------------------------------------------------------------------
(* cmd/attachments.go: the attachments command.                            *)

\* strings.TrimSpace
TrimSpace(s) == TrimLeft(TrimRight(s))

RECURSIVE SplitComma(_, _, _)
\* strings.Split(s, ","): the pieces from position i on, cur being the piece
\* read so far.
SplitComma(s, i, cur) ==
    IF i > Len(s) THEN <<cur>>
    ELSE IF At(s, i) = "," THEN <<cur>> \o SplitComma(s, i + 1, "")
    ELSE SplitComma(s, i + 1, cur \o At(s, i))

AllDigits(s, from) == from <= Len(s) /\ \A i \in from..Len(s) : IsDigit(At(s, i))

\* The digits of 1<<63, the first number beyond the range of int.
IntLimit == "9223372036854775808"

\* The number of the digits (without leading zeros) is more than limit, a
\* string of digits, plus extra.
Exceeds(digits, limit, extra) ==
    \/ Len(digits) > Len(limit)
    \/ /\ Len(digits) = Len(limit)
       /\ FractionGE(digits, limit, 1)
       /\ (extra = 0 => digits # limit)

\* The value of the digits (without leading zeros); a number of ten digits
\* or more, which is above the length of every list, is given as 10^9.
ValueOf(digits) == IF Len(digits) > 9 THEN 1000000000 ELSE DigitsValue(digits, 1, 0)

\* strconv.Atoi of the digits after the sign: a range error beyond
\* 1<<63 - 1, or beyond -(1<<63) for a negative number.
AtoiDigits(digits, negative) ==
    IF Exceeds(digits, IntLimit, IF negative THEN 0 ELSE -1) THEN [ok |-> FALSE, val |-> 0]
    ELSE [ok |-> TRUE, val |-> IF negative THEN 0 - ValueOf(digits) ELSE ValueOf(digits)]

\* strconv.Atoi: [ok, val]
Atoi(s) ==
    IF At(s, 1) = "-" /\ AllDigits(s, 2)
       THEN AtoiDigits(StripZeros(SubSeq(s, 2, Len(s))), TRUE)
    ELSE IF At(s, 1) = "+" /\ AllDigits(s, 2)
       THEN AtoiDigits(StripZeros(SubSeq(s, 2, Len(s))), FALSE)
    ELSE IF AllDigits(s, 1) THEN AtoiDigits(StripZeros(s), FALSE)
    ELSE [ok |-> FALSE, val |-> 0]

RECURSIVE IndicesFrom(_, _, _, _)
\* The loop over the pieces of --index: [err, indices], indices 0-based.
IndicesFrom(pieces, k, n, acc) ==
    IF k > Len(pieces) THEN [err |-> "", indices |-> acc]
    ELSE IF ~Atoi(TrimSpace(pieces[k])).ok
        THEN [err |-> "invalid attachment index", indices |-> <<>>]
    ELSE IF Atoi(TrimSpace(pieces[k])).val < 1 \/ Atoi(TrimSpace(pieces[k])).val > n
        THEN [err |-> "attachment index out of range", indices |-> <<>>]
    ELSE IndicesFrom(pieces, k + 1, n, Append(acc, Atoi(TrimSpace(pieces[k])).val - 1))

\* "Determine which attachments to download"
IndicesToDownload(index, n) ==
    IF index # "" THEN IndicesFrom(SplitComma(index, 1, ""), 1, n, <<>>)
    ELSE [err |-> "", indices |-> [i \in 1..n |-> i - 1]]

AttachmentKinds ==
    {[filename |-> "a.txt", content |-> "https://jira.example.com/attachment/1"],
     [filename |-> "b.txt", content |-> ""],
     [filename |-> "c.txt", content |-> "https://files.example.net/attachment/2"],
     [filename |-> "d.txt", content |-> "://x"]}

\* What config.Load returns: a Cloud and a Server configuration.
AttConfigs ==
    {[URL |-> "https://jira.example.com", Email |-> "me@example.com", Username |-> "",
      Token |-> "secret"],
     [URL |-> "https://jira.example.com", Email |-> "", Username |-> "me", Token |-> "secret"]}

RECURSIVE AttachmentLists(_)
AttachmentLists(n) ==
    IF n = 0 THEN {<<>>}
    ELSE AttachmentLists(n - 1)
            \cup {Append(l, a) : l \in {m \in AttachmentLists(n - 1) : Len(m) = n - 1},
                                a \in AttachmentKinds}

IndexFlags == {"", "1", "2,1", "1, 3", "x", "0", "1,,2"}

\* What can happen to one download: no response, a status, and for a 200 a
\* file that cannot be created or written.
DownloadReplies ==
    {[fault |-> f, status |-> 200] : f \in {"none", "transport", "create", "write"}}
        \cup {[fault |-> "none", status |-> 404]}

\* downloadSingleAttachment: its error, "" for nil.
downloadSingleAttachment(attachment, reply) ==
    IF attachment.content = "" THEN "no download URL available"
    ELSE IF NewRequestError(attachment.content) # "" THEN "failed to create request"
    ELSE IF RoundTripError(attachment.content) # "" THEN "failed to download"
    ELSE IF reply.fault = "transport" THEN "failed to download"
    ELSE IF reply.status # 200 THEN "HTTP error"
    ELSE IF reply.fault = "create" THEN "failed to create file"
    ELSE IF reply.fault = "write" THEN "failed to write file"
    ELSE ""

\* The request of downloadSingleAttachment that client.Do hands to the
\* network, <<>> when there is none: "Add authentication headers" sets the
\* header if it can.
DownloadRequest(attachment, cfg) ==
    IF attachment.content = "" \/ NewRequestError(attachment.content) # ""
          \/ RoundTripError(attachment.content) # ""
       THEN <<>>
    ELSE <<[url      |-> attachment.content,
            user     |-> BasicAuthUser(cfg),
            password |-> IF BasicAuthUser(cfg) = <<>> THEN "" ELSE cfg.Token]>>

Op(op, target, err) == [op |-> op, target |-> target, err |-> err]

\* The command returns err after running ops.
AttReturn(ops, err) ==
    /\ attPc' = "done"
    /\ attOps' = attOps \o ops
    /\ attErr' = err
    /\ UNCHANGED <<attachments, attDownload, attIndex, attQueue, attSuccess, attCfg, attSent>>
    /\ UNCHANGED <<pageVars, shiftVars, linkVars, descVars, reqVars, cfgVars, updVars, viewVars, initVars, epicVars, opVars>>

\* attachmentsCmd.RunE up to the download loop: config.Load, GetIssue, the
\* listing, and of downloadAttachments the indices and the output directory.
attachmentsCmd ==
    /\ attPc = "start"
    /\ \E loadErr \in {"", "configuration error"}, getErr \in {"", "issue not found"},
          mkdirErr \in {"", "failed to create output directory"} :
        IF loadErr # "" THEN AttReturn(<<Op("config.Load", -1, loadErr)>>, loadErr)
        ELSE IF getErr # ""
            THEN AttReturn(<<Op("config.Load", -1, ""), Op("GetIssue", -1, getErr)>>, getErr)
        ELSE IF Len(attachments) = 0 \/ ~attDownload
            THEN AttReturn(<<Op("config.Load", -1, ""), Op("GetIssue", -1, "")>>, "")
        ELSE IF IndicesToDownload(attIndex, Len(attachments)).err # ""
            THEN AttReturn(<<Op("config.Load", -1, ""), Op("GetIssue", -1, "")>>,
                           IndicesToDownload(attIndex, Len(attachments)).err)
        ELSE IF mkdirErr # ""
            THEN AttReturn(<<Op("config.Load", -1, ""), Op("GetIssue", -1, ""),
                             Op("MkdirAll", -1, mkdirErr)>>, mkdirErr)
        ELSE /\ attPc' = "downloading"
             /\ attQueue' = IndicesToDownload(attIndex, Len(attachments)).indices
             /\ attOps' = attOps \o <<Op("config.Load", -1, ""), Op("GetIssue", -1, ""),
                                      Op("MkdirAll", -1, "")>>
             /\ UNCHANGED <<attachments, attDownload, attIndex, attSuccess, attErr, attCfg,
                            attSent>>
             /\ UNCHANGED <<pageVars, shiftVars, linkVars, descVars, reqVars, cfgVars, updVars, viewVars, initVars, epicVars, opVars>>

\* downloadAttachments: one iteration of "Download each attachment"; after
\* the last one the success line and "return nil".
downloadAttachments ==
    /\ attPc = "downloading"
    /\ \E reply \in DownloadReplies :
        /\ attOps' = Append(attOps,
                            Op("download", Head(attQueue),
                               downloadSingleAttachment(attachments[Head(attQueue) + 1], reply)))
        /\ attSent' = attSent \o DownloadRequest(attachments[Head(attQueue) + 1], attCfg)
        /\ attQueue' = Tail(attQueue)
        /\ IF Len(attQueue) = 1
              THEN attPc' = "done" /\ attSuccess' = TRUE /\ attErr' = ""
              ELSE UNCHANGED <<attPc, attSuccess, attErr>>
    /\ UNCHANGED <<attachments, attDownload, attIndex, attCfg>>
    /\ UNCHANGED <<pageVars, shiftVars, linkVars, descVars, reqVars, cfgVars, updVars, viewVars, initVars, epicVars, opVars>>

AttInit ==
    /\ attachments \in AttachmentLists(MaxAttachments)
    /\ attDownload \in BOOLEAN
    /\ attIndex \in IndexFlags
    /\ attPc = "start"
    /\ attQueue = <<>>
    /\ attOps = <<>>
    /\ attSuccess = FALSE
    /\ attErr = ""
    /\ attCfg \in AttConfigs
    /\ attSent = <<>>

AttNext == attachmentsCmd \/ downloadAttachments

AttStart == AttInit /\ PageIdle /\ ShiftIdle /\ LinkIdle /\ DescIdle /\ ReqIdle /\ CfgIdle /\ UpdIdle /\ ViewIdle /\ InitIdle /\ EpicIdle /\ OpIdle

SpecAtt == AttStart /\ [][AttNext]_vars

----------------------------------------------------------------------------
(* internal/config: Load, loadSection, loadFromFileSection.                *)

\* strings.Trim(s, "[]")
RECURSIVE TrimBrackets(_)
TrimBrackets(s) ==
    IF At(s, 1) \in {"[", "]"} THEN TrimBrackets(SubSeq(s, 2, Len(s)))
    ELSE IF At(s, Len(s)) \in {"[", "]"} THEN TrimBrackets(SubSeq(s, 1, Len(s) - 1))
    ELSE s

\* strings.Index(s, "="): the position of the first "=", 0 if there is none.
IndexEquals(s) ==
    IF \E i \in 1..Len(s) : At(s, i) = "="
       THEN CHOOSE i \in 1..Len(s) : At(s, i) = "=" /\ \A j \in 1..(i - 1) : At(s, j) # "="
       ELSE 0

\* "Remove quotes if present": the test.
IsQuoted(value) ==
    \/ HasPrefix(value, Quote) /\ HasSuffix(value, Quote)
    \/ HasPrefix(value, "'") /\ HasSuffix(value, "'")

\* "switch strings.ToLower(key)"
SetKey(config, key, value) ==
    CASE ToLower(key) = "url"      -> [config EXCEPT !.URL = value]
      [] ToLower(key) = "email"    -> [config EXCEPT !.Email = value]
      [] ToLower(key) = "username" -> [config EXCEPT !.Username = value]
      [] ToLower(key) = "token"    -> [config EXCEPT !.Token = value]
      [] OTHER                     -> config

\* The lines bufio.Scanner hands out: all of them when file.scanStop is 0,
\* else those before line file.scanStop, where Scan stops with an error (a
\* line longer than 64 KiB, or a read that fails at the start of the line).
Delivered(file) ==
    IF file.scanStop = 0 THEN file.lines ELSE SubSeq(file.lines, 1, file.scanStop - 1)

RECURSIVE ScanLines(_, _, _, _, _)
RECURSIVE ScanLine(_, _, _, _, _, _)
RECURSIVE ScanPair(_, _, _, _, _, _)

\* The scanner loop of loadFromFileSection from line k on: [panic, config].
ScanLines(lines, k, section, inTargetSection, config) ==
    IF k > Len(lines) THEN [panic |-> FALSE, config |-> config]
    ELSE ScanLine(lines, k, section, inTargetSection, config, TrimSpace(lines[k]))

ScanLine(lines, k, section, inTargetSection, config, line) ==
    IF line = "" \/ HasPrefix(line, "#")
       THEN ScanLines(lines, k + 1, section, inTargetSection, config)
    ELSE IF HasPrefix(line, "[") /\ HasSuffix(line, "]")
       THEN ScanLines(lines, k + 1, section,
                      ToLower(TrimBrackets(line)) = ToLower(section), config)
    ELSE IF inTargetSection /\ IndexEquals(line) > 0
       THEN ScanPair(lines, k, section, config,
                     TrimSpace(SubSeq(line, 1, IndexEquals(line) - 1)),
                     TrimSpace(SubSeq(line, IndexEquals(line) + 1, Len(line))))
    ELSE ScanLines(lines, k + 1, section, inTargetSection, config)

\* A key=value pair of the target section.  "value[1 : len(value)-1]" of a
\* value that is one quote character is out of range: the program panics.
ScanPair(lines, k, section, config, key, value) ==
    IF IsQuoted(value) /\ Len(value) < 2 THEN [panic |-> TRUE, config |-> config]
    ELSE ScanLines(lines, k + 1, section, TRUE,
                   SetKey(config, key,
                          IF IsQuoted(value) THEN SubSeq(value, 2, Len(value) - 1) ELSE value))

\* "mode.Perm()&0077 != 0"
TooPermissive(mode) == mode % GroupOtherBits # 0

FileResult(err, config, events, mode) ==
    [err |-> err, config |-> config, events |-> events, mode |-> mode]

\* The end of loadFromFileSection, scan being what the scanner loop gave:
\* "if err := scanner.Err(); err != nil { return nil, err }"
Scanned(file, scan, events, mode) ==
    IF scan.panic
       THEN FileResult("panic: slice bounds out of range", EmptyConfig,
                       events \o <<"open", "read">>, mode)
    ELSE IF file.scanStop # 0
       THEN FileResult("scanner stopped", EmptyConfig, events \o <<"open", "read failed">>, mode)
    ELSE FileResult("", scan.config, events \o <<"open", "read">>, mode)

\* The opening and reading of the file, events being what was done before.
OpenAndScan(file, section, events, mode) ==
    IF ~file.openOk THEN FileResult("open failed", EmptyConfig, Append(events, "open failed"), mode)
    ELSE Scanned(file, ScanLines(Delivered(file), 1, section, FALSE, EmptyConfig), events, mode)

\* A variant that reads the file although its mode could not be changed.
loadFromFileSectionAnyway(file, section) ==
    IF file.removed THEN FileResult("stat failed", EmptyConfig, <<"stat failed">>, file.mode)
    ELSE IF TooPermissive(file.mode)
       THEN IF file.chmodOk
               THEN OpenAndScan(file, section, <<"chmod 0600", "warning">>, Mode0600)
               ELSE OpenAndScan(file, section, <<"chmod failed", "warning">>, file.mode)
       ELSE OpenAndScan(file, section, <<>>, file.mode)

\* loadFromFileSection: [err, config, events, mode], mode being the file's
\* mode afterwards.  Its own os.Stat fails when the file was removed after
\* the os.Stat of loadSection found it.
loadFromFileSection(file, section) ==
    IF file.removed THEN FileResult("stat failed", EmptyConfig, <<"stat failed">>, file.mode)
    ELSE IF TooPermissive(file.mode)
       THEN IF file.chmodOk
               THEN OpenAndScan(file, section, <<"chmod 0600", "warning">>, Mode0600)
               ELSE FileResult("config file has insecure permissions and could not be fixed",
                               EmptyConfig, <<"chmod failed">>, file.mode)
       ELSE OpenAndScan(file, section, <<>>, file.mode)

\* "Use file values as fallback"
Fallback(value, fileValue) == IF value = "" THEN fileValue ELSE value

Merged(envConfig, fileConfig) ==
    [URL      |-> Fallback(envConfig.URL, fileConfig.URL),
     Email    |-> Fallback(envConfig.Email, fileConfig.Email),
     Username |-> Fallback(envConfig.Username, fileConfig.Username),
     Token    |-> Fallback(envConfig.Token, fileConfig.Token)]

\* "Validate required fields": the error, "" if there is none.
Validate(config) ==
    IF config.URL = "" THEN "URL not configured"
    ELSE IF config.Token = "" THEN "API token not configured"
    ELSE IF config.Email = "" /\ config.Username = "" THEN "email or username not configured"
    ELSE ""

LoadResult(err, config, fromFile) ==
    [err |-> err, config |-> config, fromFile |-> fromFile]

\* The end of loadSection, given what the file gave.
Validated(config, fromFile) ==
    IF Validate(config) # "" THEN LoadResult(Validate(config), EmptyConfig, fromFile)
    ELSE LoadResult("", config, fromFile)

\* loadSection, given the result of loadFromFileSection on the file (which
\* is only called when the file exists): [err, config, fromFile].
loadSection(envConfig, file, fileResult) ==
    IF ~file.exists THEN Validated(envConfig, EmptyConfig)
    ELSE IF fileResult.err # ""
       THEN LoadResult("failed to load config file: " \o fileResult.err, EmptyConfig, EmptyConfig)
    ELSE Validated(Merged(envConfig, fileResult.config), fileResult.config)

\* What the environment and the file hold.
EnvConfigs ==
    [URL : {"", "https://env.example.com"}, Email : {"", "env@example.com"},
     Username : {"", "envuser"}, Token : {"", "envtoken"}]

JiraSections ==
    { <<>>,
      <<"[jira]", "url=https://file.example.com", "email=file@example.com", "token=filetoken">>,
      <<"# settings", "[JIRA]", "url = \"https://file.example.com\"", "", "username = 'fileuser'",
        "  Token=old", "token = filetoken">>,
      <<"[jira]", "url=https://file.example.com", "email=file@example.com">>,
      <<"[jira]", "url=https://file.example.com", "username=\"", "token=filetoken">> }

OtherSections ==
    { <<>>,
      <<"[confluence]", "url=https://wiki.example.com", "email=wiki@example.com",
        "token=wikitoken">>,
      <<"url=https://stray.example.com", "[other]", "token=othertoken", "username=other">> }

FileModes == {384, 420, 388, 256}

\* The contents of a file, and the places where a scan of them can stop.
FileContents == {o \o j : o \in OtherSections, j \in JiraSections}
ScanStops(lines) == 1..Len(lines)

ConfigFiles ==
    {NoFile}
        \cup {[exists |-> TRUE, mode |-> m, lines |-> l, chmodOk |-> c, openOk |-> r,
               scanStop |-> 0, removed |-> FALSE] :
                 m \in FileModes, l \in FileContents, c \in BOOLEAN, r \in BOOLEAN}
        \cup {[exists |-> TRUE, mode |-> Mode0600, lines |-> j \o o, chmodOk |-> TRUE,
               openOk |-> TRUE, scanStop |-> 0, removed |-> FALSE] :
                 o \in OtherSections, j \in JiraSections}
        \cup UNION {{[exists |-> TRUE, mode |-> m, lines |-> l, chmodOk |-> TRUE,
                      openOk |-> TRUE, scanStop |-> s, removed |-> FALSE] :
                        m \in FileModes, s \in ScanStops(l)} : l \in FileContents}
        \cup {[exists |-> TRUE, mode |-> m, lines |-> l, chmodOk |-> TRUE, openOk |-> TRUE,
               scanStop |-> 0, removed |-> TRUE] : m \in FileModes, l \in FileContents}

\* The file after loadFromFileSection ran on it (if the file exists): its
\* mode may have changed, and a removed file is gone.
FileAfter(file, section) ==
    IF file.exists
       THEN [file EXCEPT !.mode = loadFromFileSection(file, section).mode,
                         !.exists = ~file.removed]
       ELSE file

\* config.Load: loadSection("jira", "JIRA")
Load ==
    /\ cfgPc = "start"
    /\ cfgPc' = "done"
    /\ cfgModeBefore' = cfgFile.mode
    /\ cfgOut' = loadSection(env["JIRA"], cfgFile, loadFromFileSection(cfgFile, "jira")).config
    /\ cfgErr' = loadSection(env["JIRA"], cfgFile, loadFromFileSection(cfgFile, "jira")).err
    /\ cfgFromFile' =
          loadSection(env["JIRA"], cfgFile, loadFromFileSection(cfgFile, "jira")).fromFile
    /\ IF cfgFile.exists
          THEN /\ cfgEvents' = cfgEvents \o loadFromFileSection(cfgFile, "jira").events
               /\ cfgFile' = FileAfter(cfgFile, "jira")
          ELSE UNCHANGED <<cfgEvents, cfgFile>>
    /\ UNCHANGED env
    /\ UNCHANGED <<pageVars, shiftVars, linkVars, descVars, reqVars, attVars, updVars, viewVars, initVars, epicVars, opVars>>

CfgInit ==
    /\ \E jira \in EnvConfigs : env = [prefix \in {"JIRA", "CONFLUENCE"} |->
                                         IF prefix = "JIRA" THEN jira ELSE EmptyConfig]
    /\ cfgFile \in ConfigFiles
    /\ cfgPc = "start"
    /\ cfgModeBefore = 0
    /\ cfgFromFile = EmptyConfig
    /\ cfgEvents = <<>>
    /\ cfgOut = EmptyConfig
    /\ cfgErr = ""

CfgNext == Load

CfgStart == CfgInit /\ PageIdle /\ ShiftIdle /\ LinkIdle /\ DescIdle /\ ReqIdle /\ AttIdle /\ UpdIdle /\ ViewIdle /\ InitIdle /\ EpicIdle /\ OpIdle

SpecCfg == CfgStart /\ [][CfgNext]_vars

----------------------------------------------------------------------------
(* internal/config: LoadConfluence.                                        *)

ValidationErrors ==
    {"URL not configured", "API token not configured", "email or username not configured"}

\* The messages of "Validate required fields" begin with envPrefix.
WithPrefix(envPrefix, result) ==
    IF result.err \in ValidationErrors
       THEN [result EXCEPT !.err = envPrefix \o " " \o result.err]
       ELSE result

\* loadSection(section, envPrefix) on the file as it is now
LoadSectionOf(section, envPrefix, file) ==
    WithPrefix(envPrefix, loadSection(env[envPrefix], file, loadFromFileSection(file, section)))

\* What loadFromFileSection did to the file (if the file exists).
EventsOf(file, section) ==
    IF file.exists THEN loadFromFileSection(file, section).events ELSE <<>>

\* The attempt ended in the panic of the scanner: the program stops there.
Panicked(result) == result.err = "failed to load config file: panic: slice bounds out of range"

\* LoadConfluence goes on to the Jira section.
JiraTried(confluence) == confluence.err # "" /\ ~Panicked(confluence)

\* A variant that returns the error of the Jira attempt when both fail.
ConfluenceOrJiraLastError(confluence, jira) ==
    IF JiraTried(confluence) THEN jira ELSE confluence

\* The choice of LoadConfluence between the results of its two attempts.
ConfluenceOrJira(confluence, jira) ==
    IF ~JiraTried(confluence) THEN confluence
    ELSE IF jira.err = "" \/ Panicked(jira) THEN jira
    ELSE LoadResult(confluence.err, EmptyConfig, EmptyConfig)

\* config.LoadConfluence
LoadConfluence ==
    /\ cfgPc = "start"
    /\ cfgPc' = "done"
    /\ cfgModeBefore' = cfgFile.mode
    /\ cfgOut' = ConfluenceOrJira(LoadSectionOf("confluence", "CONFLUENCE", cfgFile),
                                  LoadSectionOf("jira", "JIRA",
                                                FileAfter(cfgFile, "confluence"))).config
    /\ cfgErr' = ConfluenceOrJira(LoadSectionOf("confluence", "CONFLUENCE", cfgFile),
                                  LoadSectionOf("jira", "JIRA",
                                                FileAfter(cfgFile, "confluence"))).err
    /\ cfgFromFile' = ConfluenceOrJira(LoadSectionOf("confluence", "CONFLUENCE", cfgFile),
                                       LoadSectionOf("jira", "JIRA",
                                                     FileAfter(cfgFile, "confluence"))).fromFile
    /\ IF ~JiraTried(LoadSectionOf("confluence", "CONFLUENCE", cfgFile))
          THEN /\ cfgEvents' = cfgEvents \o EventsOf(cfgFile, "confluence")
               /\ cfgFile' = FileAfter(cfgFile, "confluence")
          ELSE /\ cfgEvents' = cfgEvents \o EventsOf(cfgFile, "confluence")
                                  \o EventsOf(FileAfter(cfgFile, "confluence"), "jira")
               /\ cfgFile' = FileAfter(FileAfter(cfgFile, "confluence"), "jira")
    /\ UNCHANGED env
    /\ UNCHANGED <<pageVars, shiftVars, linkVars, descVars, reqVars, attVars, updVars, viewVars,
                   initVars, epicVars, opVars>>

\* What the environment holds for the two prefixes.
JiraEnvs ==
    {EmptyConfig,
     [URL |-> "https://env.example.com", Email |-> "", Username |-> "", Token |-> "envtoken"],
     [URL |-> "https://env.example.com", Email |-> "env@example.com", Username |-> "",
      Token |-> "envtoken"]}

ConfluenceEnvs ==
    {EmptyConfig,
     [URL |-> "https://wiki.env.example.com", Email |-> "", Username |-> "", Token |-> ""],
     [URL |-> "https://wiki.env.example.com", Email |-> "", Username |-> "wikienvuser",
      Token |-> "wikienvtoken"]}

WikiInit ==
    /\ \E jira \in JiraEnvs, confluence \in ConfluenceEnvs :
          env = [prefix \in {"JIRA", "CONFLUENCE"} |->
                    IF prefix = "JIRA" THEN jira ELSE confluence]
    /\ cfgFile \in ConfigFiles
    /\ cfgPc = "start"
    /\ cfgModeBefore = 0
    /\ cfgFromFile = EmptyConfig
    /\ cfgEvents = <<>>
    /\ cfgOut = EmptyConfig
    /\ cfgErr = ""

WikiNext == LoadConfluence

WikiStart ==
    WikiInit /\ PageIdle /\ ShiftIdle /\ LinkIdle /\ DescIdle /\ ReqIdle /\ AttIdle /\ UpdIdle
        /\ ViewIdle /\ InitIdle /\ EpicIdle /\ OpIdle

SpecWiki == WikiStart /\ [][WikiNext]_vars

----------------------------------------------------------------------------
(* cmd/selfupdate.go: the update command.                                  *)

RECURSIVE findProjectRoot(_, _)
\* findProjectRoot from the directory at depth dir: [err, dir].
findProjectRoot(dir, mods) ==
    IF dir \in mods THEN [err |-> "", dir |-> dir]
    ELSE IF dir = 0 THEN [err |-> "could not find go.mod file", dir |-> 0]
    ELSE findProjectRoot(dir - 1, mods)

\* The steps of updateCmd.RunE that can fail, in order.
UpdateSteps == <<"LookPath", "findProjectRoot", "Getwd", "Chdir", "go build", "Rename", "Chmod",
                 "test">>

UpdateErrors ==
    [step \in {UpdateSteps[i] : i \in DOMAIN UpdateSteps} |->
        CASE step = "LookPath"        -> "could not find jet binary in PATH"
          [] step = "findProjectRoot" -> "could not find project root"
          [] step = "Getwd"           -> "could not get current directory"
          [] step = "Chdir"           -> "could not change to project directory"
          [] step = "go build"        -> "failed to build jet"
          [] step = "Rename"          -> "failed to replace jet binary"
          [] step = "Chmod"           -> "failed to make jet executable"
          [] step = "test"            -> "new jet binary failed to run"]

\* The step can fail in this state of the machine.
MayFail(step) ==
    CASE step = "LookPath"        -> ~jetInPath
      [] OTHER                    -> TRUE

\* The step cannot but fail.
MustFail(step) ==
    CASE step = "LookPath"        -> ~jetInPath
      [] step = "findProjectRoot" -> findProjectRoot(cwdDepth, goMods).err # ""
      [] OTHER                    -> FALSE

\* updateCmd.RunE: it runs the steps in order up to the first that fails
\* (failedAt = 0: none fails).
updateCmd ==
    /\ updPc = "start"
    /\ \E failedAt \in 0..Len(UpdateSteps) :
        /\ \A i \in 1..Len(UpdateSteps) :
              /\ (failedAt = 0 \/ i < failedAt) => ~MustFail(UpdateSteps[i])
              /\ i = failedAt => MayFail(UpdateSteps[i])
        /\ updSteps' = IF failedAt = 0 THEN UpdateSteps ELSE SubSeq(UpdateSteps, 1, failedAt)
        /\ updErr' = IF failedAt = 0 THEN "" ELSE UpdateErrors[UpdateSteps[failedAt]]
        \* os.Rename("jet", jetPath) is step 6
        /\ installed' = IF failedAt = 0 \/ failedAt > 6 THEN "new" ELSE installed
    /\ updPc' = "done"
    /\ UNCHANGED <<cwdDepth, goMods, jetInPath, userConfirms, updPrompted>>
    /\ UNCHANGED <<pageVars, shiftVars, linkVars, descVars, reqVars, attVars, cfgVars, viewVars, initVars, epicVars, opVars>>

UpdInit ==
    /\ cwdDepth \in 0..MaxDepth
    /\ goMods \in SUBSET (0..cwdDepth)
    /\ jetInPath \in BOOLEAN
    /\ userConfirms \in BOOLEAN
    /\ updPc = "start"
    /\ updSteps = <<>>
    /\ updPrompted = FALSE
    /\ installed = "old"
    /\ updErr = ""

UpdNext == updateCmd

UpdStart ==
    UpdInit /\ PageIdle /\ ShiftIdle /\ LinkIdle /\ DescIdle /\ ReqIdle /\ AttIdle /\ CfgIdle
        /\ ViewIdle
        /\ InitIdle
        /\ EpicIdle
        /\ OpIdle

SpecUpd == UpdStart /\ [][UpdNext]_vars

----------------------------------------------------------------------------
(* cmd/view.go: the view command.                                          *)

RECURSIVE ScanUpper(_, _)
ScanUpper(s, i) == IF IsUpper(At(s, i)) THEN ScanUpper(s, i + 1) ELSE i

\* [A-Z]+-\d+ from place from on, dash being where the capital letters end
KeyFrom(s, from, dash) ==
    IF dash > from /\ At(s, dash) = "-" /\ ScanDigits(s, dash + 1) > dash + 1
       THEN SubSeq(s, from, ScanDigits(s, dash + 1) - 1)
       ELSE ""

\* the submatch of /browse/([A-Z]+-\d+) when the expression matches at place i
BrowseKeyAt(s, i) ==
    IF StartsAt(s, i, "/browse/")
       THEN KeyFrom(s, i + Len("/browse/"), ScanUpper(s, i + Len("/browse/")))
       ELSE ""

\* re.FindStringSubmatch(s)[1]: the leftmost match ("" for no match)
FindBrowseKey(s) ==
    IF \E i \in 1..Len(s) : BrowseKeyAt(s, i) # ""
       THEN BrowseKeyAt(s, CHOOSE i \in 1..Len(s) :
                               BrowseKeyAt(s, i) # "" /\ \A j \in 1..(i - 1) : BrowseKeyAt(s, j) = "")
       ELSE ""

\* The checks of a URL argument, on the parsed URL: [err, key]
CheckURL(arg, parsedURL) ==
    IF parsedURL.err # "" THEN [err |-> "invalid URL format", key |-> ""]
    ELSE IF parsedURL.Scheme # "https"
       THEN [err |-> "only HTTPS URLs are allowed for security", key |-> ""]
    ELSE IF ~Contains(parsedURL.Host, "atlassian.net") /\ ~HasSuffix(parsedURL.Host, "jira.com")
       THEN [err |-> "URL must be from a recognized JIRA domain", key |-> ""]
    ELSE IF FindBrowseKey(arg) = "" THEN [err |-> "invalid JIRA URL format", key |-> ""]
    ELSE [err |-> "", key |-> FindBrowseKey(arg)]

\* The first part of viewCmd.RunE: the ticket key of the argument
TicketKeyOf(arg) ==
    IF Contains(arg, "://") THEN CheckURL(arg, Parse(arg)) ELSE [err |-> "", key |-> arg]

\* What config.Load and client.GetIssue can come to in the command
LoadOutcomes == {"", "configuration error"}
GetIssueOutcomes == {"", "issue not found", "request failed"}

\* What json.MarshalIndent, os.Create and file.WriteString can come to
MarshalOutcomes == {"", "failed to format JSON"}
CreateOutcomes == {"", "failed to create output file"}
WriteOutcomes == {"", "failed to write to output file"}

\* The form of the output: the switch on viewFormat
OutputForm(format) == IF format = "json" THEN "json" ELSE "readable"

\* The last part of viewCmd.RunE, the ticket fetched: [err, out]. os.Create
\* leaves an empty file when the write fails.
WriteOutput(format, output, marshalErr, createErr, writeErr) ==
    IF format = "json" /\ marshalErr # ""
       THEN [err |-> marshalErr, out |-> [dest |-> "", form |-> ""]]
    ELSE IF output = ""
       THEN [err |-> "", out |-> [dest |-> "stdout", form |-> OutputForm(format)]]
    ELSE IF createErr # ""
       THEN [err |-> createErr, out |-> [dest |-> "", form |-> ""]]
    ELSE IF writeErr # ""
       THEN [err |-> writeErr, out |-> [dest |-> output, form |-> ""]]
    ELSE [err |-> "", out |-> [dest |-> output, form |-> OutputForm(format)]]

\* viewCmd.RunE after its first part, ticket being what that part gave
ViewTicket(ticket) ==
    IF ticket.err # ""
       THEN /\ viewErr' = ticket.err
            /\ UNCHANGED <<viewFetched, viewOut>>
    ELSE \E loadErr \in LoadOutcomes, getErr \in GetIssueOutcomes,
            marshalErr \in MarshalOutcomes, createErr \in CreateOutcomes,
            writeErr \in WriteOutcomes :
        IF loadErr # ""
           THEN /\ viewErr' = loadErr
                /\ UNCHANGED <<viewFetched, viewOut>>
        ELSE IF getErr # ""
           THEN /\ viewErr' = getErr
                /\ viewFetched' = Append(viewFetched, ticket.key)
                /\ UNCHANGED viewOut
        ELSE /\ viewErr' = WriteOutput(viewFormat, viewOutput, marshalErr, createErr, writeErr).err
             /\ viewOut' = WriteOutput(viewFormat, viewOutput, marshalErr, createErr, writeErr).out
             /\ viewFetched' = Append(viewFetched, ticket.key)

\* viewCmd.RunE
viewCmd ==
    /\ viewPc = "start"
    /\ ViewTicket(TicketKeyOf(viewArg))
    /\ viewPc' = "done"
    /\ UNCHANGED <<viewArg, viewFormat, viewOutput>>
    /\ UNCHANGED <<pageVars, shiftVars, linkVars, descVars, reqVars, attVars, cfgVars, updVars, initVars, epicVars, opVars>>

\* The arguments tried: ticket keys, and URLs put together from their parts.
URLSchemes == {"https", "http", "HTTPS", "ftp"}
URLHosts ==
    {"company.atlassian.net", "atlassian.net", "jira.com", "my.jira.com",
     "atlassian.net.evil.com", "evilatlassian.net", "evil-jira.com", "evil.com",
     "atlassian.net@evil.com", "company.atlassian.net:8443", "COMPANY.ATLASSIAN.NET",
     "my.jira.com:x", "a b.atlassian.net"}
URLPaths ==
    {"/browse/AB-12", "/browse/ab-12", "/browse/AB-12/edit", "/x/browse/AB-1", "", "/issues",
     "/browse/AB-"}
URLTails == {"", "?next=/browse/CD-3", "#/browse/CD-3", "\n"}
ViewArgs ==
    {"AB-12", "ab"}
        \cup {scheme \o "://" \o host \o path \o tail :
                scheme \in URLSchemes, host \in URLHosts, path \in URLPaths, tail \in URLTails}

\* The flags tried: --format is any string, "readable" when not given
ViewFormats == {"readable", "json", "yaml"}
ViewOutputs == {"", "ticket.txt"}

ViewInit ==
    /\ viewArg \in ViewArgs
    /\ viewPc = "start"
    /\ viewFormat \in ViewFormats
    /\ viewOutput \in ViewOutputs
    /\ viewFetched = <<>>
    /\ viewOut = [dest |-> "", form |-> ""]
    /\ viewErr = ""

ViewNext == viewCmd

ViewStart ==
    ViewInit /\ PageIdle /\ ShiftIdle /\ LinkIdle /\ DescIdle /\ ReqIdle /\ AttIdle /\ CfgIdle
        /\ UpdIdle
        /\ InitIdle
        /\ EpicIdle
        /\ OpIdle

SpecView == ViewStart /\ [][ViewNext]_vars

----------------------------------------------------------------------------
(* cmd/init.go: the init command and saveToConfigFile.                     *)

RECURSIVE AndNot(_, _)
\* perm &^ mask, bit by bit: the mode of a file created with perm under a mask
AndNot(perm, mask) ==
    IF perm = 0 THEN 0
    ELSE (perm % 2) * (1 - (mask % 2)) + 2 * AndNot(perm \div 2, mask \div 2)

\* "Skip existing JIRA section entries": the test on a line of the jira section
IsJiraEntry(line) ==
    Contains(line, "url=") \/ Contains(line, "email=") \/ Contains(line, "username=")
        \/ Contains(line, "token=")

RECURSIVE ExistingContent(_, _, _)
RECURSIVE KeepLine(_, _, _)
\* The scanner loop of saveToConfigFile from line k on: the lines kept.
ExistingContent(lines, k, inJiraSection) ==
    IF k > Len(lines) THEN <<>>
    ELSE IF HasPrefix(TrimSpace(lines[k]), "[jira]") THEN ExistingContent(lines, k + 1, TRUE)
    ELSE KeepLine(lines, k, inJiraSection /\ ~HasPrefix(TrimSpace(lines[k]), "["))

KeepLine(lines, k, inJiraSection) ==
    IF inJiraSection /\ IsJiraEntry(lines[k])
       THEN ExistingContent(lines, k + 1, inJiraSection)
       ELSE <<lines[k]>> \o ExistingContent(lines, k + 1, inJiraSection)

\* "Add JIRA section"
JiraSectionLines(in) ==
    <<"[jira]", "url=" \o in.URL>>
        \o (IF in.Email # "" THEN <<"email=" \o in.Email>> ELSE <<>>)
        \o (IF in.Username # "" THEN <<"username=" \o in.Username>> ELSE <<>>)
        \o <<"token=" \o in.Token>>

\* os.Create(configPath): an existing file is truncated and keeps its mode,
\* a new one gets 0666 less the bits of the mask.
Created(file, umask) ==
    [file EXCEPT !.exists = TRUE,
                 !.mode = IF file.exists THEN file.mode ELSE AndNot(CreatePerm, umask),
                 !.lines = <<>>,
                 !.scanStop = 0]

\* What os.UserHomeDir can come to
HomeOutcomes == {"", "failed to get home directory"}

\* saveToConfigFile: [err, file].  The scanner's error is not looked at: the
\* lines from the one it stops at are lost.
saveToConfigFile(file, in, umask, homeErr) ==
    IF homeErr # "" THEN [err |-> homeErr, file |-> file]
    ELSE IF file.exists /\ ~file.openOk
       THEN [err |-> "failed to read existing config", file |-> file]
    ELSE IF ~file.createOk
       THEN [err |-> "failed to create config file", file |-> file]
    ELSE [err |-> "",
          file |-> [Created(file, umask) EXCEPT
                       !.lines = (IF file.exists THEN ExistingContent(Delivered(file), 1, FALSE)
                                                 ELSE <<>>) \o JiraSectionLines(in)]]

\* strings.EqualFold(strings.TrimSpace(confirm), "y")
Confirmed(confirm) == ToLower(TrimSpace(confirm)) = "y"

\* What the user answers to "Save configuration? (y/N)" and to "Save as (1)
\* environment variables or (2) config file?" ("" keeps the default).
ConfirmAnswers == {"", "y", " Y", "n", "yes"}
SaveMethodAnswers == {"", "1", "2", " 2", "file"}

\* runInit
runInit ==
    /\ initPc = "start"
    /\ \E confirm \in ConfirmAnswers, saveMethod \in SaveMethodAnswers, homeErr \in HomeOutcomes :
        IF ~Confirmed(IF confirm = "" THEN "N" ELSE confirm)
           THEN /\ initSaved' = "cancelled"
                /\ UNCHANGED <<initFile, initErr>>
        ELSE IF TrimSpace(IF saveMethod = "" THEN "1" ELSE saveMethod) = "2"
           THEN /\ initSaved' = "file"
                /\ initFile' = saveToConfigFile(initFile, initInput, initUmask, homeErr).file
                /\ initErr' = saveToConfigFile(initFile, initInput, initUmask, homeErr).err
        ELSE /\ initSaved' = "env"
             /\ UNCHANGED <<initFile, initErr>>
    /\ initPc' = "done"
    /\ UNCHANGED <<initBefore, initInput, initUmask>>
    /\ UNCHANGED <<pageVars, shiftVars, linkVars, descVars, reqVars, attVars, cfgVars, updVars,
                   viewVars, epicVars, opVars>>

\* The files, settings and masks tried.
InitJiraSections ==
    { <<>>,
      <<"[jira]", "url=https://file.example.com", "email=file@example.com", "token=filetoken">>,
      <<"[jira]", "url = https://file.example.com", "# old", "token = filetoken">>,
      <<"# settings", "[JIRA]", "url=https://file.example.com", "username=fileuser",
        "token=filetoken">> }

InitContents == {o \o j : o \in OtherSections, j \in InitJiraSections}

InitFiles ==
    {NoInitFile}
        \cup {[exists |-> TRUE, mode |-> m, lines |-> l, openOk |-> r, createOk |-> c,
               scanStop |-> 0] :
                 m \in FileModes, l \in InitContents, r \in BOOLEAN, c \in BOOLEAN}
        \cup {[exists |-> TRUE, mode |-> Mode0600, lines |-> j \o o, openOk |-> TRUE,
               createOk |-> TRUE, scanStop |-> 0] : o \in OtherSections, j \in InitJiraSections}
        \cup UNION {{[exists |-> TRUE, mode |-> Mode0600, lines |-> l, openOk |-> TRUE,
                      createOk |-> TRUE, scanStop |-> s] : s \in ScanStops(l)} :
                        l \in InitContents}

InitInputs ==
    [URL : {"https://new.example.com"}, Email : {"", "new@example.com"},
     Username : {"", "newuser"}, Token : {"newtoken"}]

Umasks == {Umask022, Umask077, Umask002}

InitInit ==
    /\ initFile \in InitFiles
    /\ initBefore = initFile
    /\ initInput \in InitInputs
    /\ initUmask \in Umasks
    /\ initPc = "start"
    /\ initSaved = ""
    /\ initErr = ""

InitNext == runInit

InitStart ==
    InitInit /\ PageIdle /\ ShiftIdle /\ LinkIdle /\ DescIdle /\ ReqIdle /\ AttIdle /\ CfgIdle
        /\ UpdIdle /\ ViewIdle
        /\ EpicIdle
        /\ OpIdle

SpecInit == InitStart /\ [][InitNext]_vars

----------------------------------------------------------------------------
(* cmd/epic.go: the epic command.                                          *)

\* "Extract ticket key from URL if provided": strings.Split(epicKey,
\* "/browse/") has two parts when the separator occurs exactly once.
EpicKeyOf(arg) ==
    IF Contains(arg, "/browse/") /\ ~Contains(After(arg, "/browse/"), "/browse/")
       THEN After(arg, "/browse/")
       ELSE arg

ClosedStatuses == {"closed", "done", "resolved"}

RECURSIVE FilterExactName(_)
\* A variant that compares the status name as it is written.
FilterExactName(children) ==
    IF children = <<>> THEN <<>>
    ELSE IF Head(children).status \notin ClosedStatuses
       THEN <<Head(children)>> \o FilterExactName(Tail(children))
       ELSE FilterExactName(Tail(children))

RECURSIVE FilterClosed(_)
\* "Filter out closed tickets unless --all flag is used": the loop
FilterClosed(children) ==
    IF children = <<>> THEN <<>>
    ELSE IF ToLower(Head(children).status) \notin ClosedStatuses
       THEN <<Head(children)>> \o FilterClosed(Tail(children))
       ELSE FilterClosed(Tail(children))

\* The children the command goes on with
ChildrenToShow(children, all) == IF all THEN children ELSE FilterClosed(children)

\* epicCmd.Run
epicCmd ==
    /\ epicPc = "start"
    /\ \E loadOk \in BOOLEAN, childrenOk \in BOOLEAN, writeOk \in BOOLEAN :
        IF ~loadOk
           THEN /\ epicExit' = 1
                /\ UNCHANGED <<epicKey, epicShown>>
        ELSE IF ~childrenOk
           THEN /\ epicExit' = 1
                /\ epicKey' = EpicKeyOf(epicArg)
                /\ UNCHANGED epicShown
        ELSE IF ChildrenToShow(epicFetched, showAllTickets) # <<>> /\ ~writeOk
           THEN /\ epicExit' = 1
                /\ epicKey' = EpicKeyOf(epicArg)
                /\ UNCHANGED epicShown
        ELSE /\ epicExit' = 0
             /\ epicKey' = EpicKeyOf(epicArg)
             /\ epicShown' = ChildrenToShow(epicFetched, showAllTickets)
    /\ epicPc' = "done"
    /\ UNCHANGED <<epicArg, showAllTickets, epicFetched>>
    /\ UNCHANGED <<pageVars, shiftVars, linkVars, descVars, reqVars, attVars, cfgVars, updVars,
                   viewVars, initVars, opVars>>

\* The status names and the lists of children tried.
StatusNames == {"Done", "CLOSED", "resolved", "Open", "In Progress", "done "}
EpicArgs == {"PROJ-1", "https://company.atlassian.net/browse/PROJ-1", "/browse/a/browse/b"}

ChildrenOfLen(n) ==
    {[i \in 1..n |-> [key |-> i, status |-> names[i]]] : names \in [1..n -> StatusNames]}
ChildLists == UNION {ChildrenOfLen(n) : n \in 0..MaxChildren}

EpicInit ==
    /\ epicArg \in EpicArgs
    /\ showAllTickets \in BOOLEAN
    /\ epicFetched \in ChildLists
    /\ epicPc = "start"
    /\ epicKey = ""
    /\ epicShown = <<>>
    /\ epicExit = 0

EpicNext == epicCmd

EpicStart ==
    EpicInit /\ PageIdle /\ ShiftIdle /\ LinkIdle /\ DescIdle /\ ReqIdle /\ AttIdle /\ CfgIdle
        /\ UpdIdle /\ ViewIdle /\ InitIdle
        /\ OpIdle

SpecEpic == EpicStart /\ [][EpicNext]_vars

----------------------------------------------------------------------------
(* internal/jira: the status handling of every operation of the client.    *)

\* A variant of UpdateIssue that takes every 2xx answer for a success.
UpdateIssueAny2xx(reply) ==
    IF reply.fault = "transport" THEN "request failed"
    ELSE IF reply.status = 404 THEN "issue not found"
    ELSE IF reply.status = 401 THEN "authentication failed - check your credentials"
    ELSE IF reply.status = 403
        THEN "access denied - you may not have permission to update this issue"
    ELSE IF reply.status \notin {200, 201, 204} THEN "HTTP error: failed to update issue"
    ELSE ""

\* Client.AddComment: the error it returns ("" for nil)
AddComment(reply) ==
    IF reply.fault = "transport" THEN "request failed"
    ELSE IF reply.status = 404 THEN "issue not found"
    ELSE IF reply.status = 401 THEN "authentication failed - check your credentials"
    ELSE IF reply.status = 403
        THEN "access denied - you may not have permission to comment on this issue"
    ELSE IF reply.status # 201 THEN "HTTP error: failed to add comment"
    ELSE ""

\* Client.UpdateIssue: the error it returns ("" for nil)
UpdateIssue(reply) ==
    IF reply.fault = "transport" THEN "request failed"
    ELSE IF reply.status = 404 THEN "issue not found"
    ELSE IF reply.status = 401 THEN "authentication failed - check your credentials"
    ELSE IF reply.status = 403
        THEN "access denied - you may not have permission to update this issue"
    ELSE IF reply.status # 204 THEN "HTTP error: failed to update issue"
    ELSE ""

\* Client.CreateIssue: the error it returns ("" for nil, and then an issue)
CreateIssue(reply) ==
    IF reply.fault = "transport" THEN "request failed"
    ELSE IF reply.status = 401 THEN "authentication failed - check your credentials"
    ELSE IF reply.status = 403
        THEN "access denied - you may not have permission to create issues in this project"
    ELSE IF reply.status # 201 THEN "HTTP error: failed to create issue"
    ELSE IF reply.fault \in BodyFaults THEN "failed to decode response"
    ELSE ""

\* Client.GetCurrentUser: the error it returns ("" for nil, and then a user)
GetCurrentUser(reply) ==
    IF reply.fault = "transport" THEN "request failed"
    ELSE IF reply.status = 401 THEN "authentication failed - check your credentials"
    ELSE IF reply.status = 403
        THEN "access denied - you may not have permission to view user information"
    ELSE IF reply.status # 200 THEN "HTTP error: failed to get current user"
    ELSE IF reply.fault \in BodyFaults THEN "failed to decode response"
    ELSE ""

\* The methods of Client that return a value beside the error
ReturningOps ==
    {"GetIssue", "CreateIssue", "SearchIssuesWithPagination", "GetEpicChildren",
     "GetCurrentUser", "GetTransitions"}

ClientOps == ReturningOps \cup {"AddComment", "UpdateIssue", "TransitionIssue", "LinkIssues"}

\* The error of the operation for the answer (of GetEpicChildren: for the
\* answer to one page request, any failure ending the operation).
OpError(op, reply) ==
    CASE op = "GetIssue"                   -> GetIssueError(reply, "")
      [] op = "AddComment"                 -> AddComment(reply)
      [] op = "UpdateIssue"                -> UpdateIssue(reply)
      [] op = "CreateIssue"                -> CreateIssue(reply)
      [] op = "SearchIssuesWithPagination" -> SearchIssuesWithPagination(reply).err
      [] op = "GetEpicChildren"            -> AgileFetch(reply).err
      [] op = "GetCurrentUser"             -> GetCurrentUser(reply)
      [] op = "GetTransitions"             -> GetTransitions(reply).err
      [] op = "TransitionIssue"            -> TransitionIssue(reply)
      [] op = "LinkIssues"                 -> LinkIssues(reply)

\* One call of a method of the client.
clientCall ==
    /\ opPc = "start"
    /\ opPc' = "done"
    /\ opErr' = OpError(opName, opReply)
    /\ opResult' = (opName \in ReturningOps /\ OpError(opName, opReply) = "")
    /\ UNCHANGED <<opName, opReply>>
    /\ UNCHANGED <<pageVars, shiftVars, linkVars, descVars, reqVars, attVars, cfgVars, updVars,
                   viewVars, initVars, epicVars>>

\* The answers tried.
Statuses == {200, 201, 202, 204, 400, 401, 403, 404, 500}

OpReplies ==
    {[fault |-> "transport", status |-> 0, body |-> NoBody]}
        \cup {[fault |-> f, status |-> st, body |-> NoBody] :
                 f \in {"none"} \cup BodyFaults, st \in Statuses}

OpInit ==
    /\ opName \in ClientOps
    /\ opReply \in OpReplies
    /\ opPc = "start"
    /\ opErr = ""
    /\ opResult = FALSE

OpNext == clientCall

OpStart ==
    OpInit /\ PageIdle /\ ShiftIdle /\ LinkIdle /\ DescIdle /\ ReqIdle /\ AttIdle /\ CfgIdle
        /\ UpdIdle /\ ViewIdle /\ InitIdle /\ EpicIdle

SpecOp == OpStart /\ [][OpNext]_vars

----------------------------------------------------------------------------
(* Properties of the pagination loops (SpecPage).                          *)

PageSizeOf(strat) == IF strat = "agile" THEN AgilePageSize ELSE SearchPageSize

\* The provider of C1: it reports total = n on every page and answers a
\* request of size k with k records as long as it has them.
HonestProvider == provider.totalMode = "exact" /\ provider.cap = 0

\* The keys of a list of tickets, and the keys of the provider's n records.
Keys(issues) == [i \in DOMAIN issues |-> issues[i].key]
AllRecords(n) == [i \in 1..n |-> i - 1]

LastRequest == requests[Len(requests)]

\* C1: against an honest provider holding n records, a paginated search that
\* met no failure returns exactly the n records, each key once, in the
\* provider's order; it has stopped only on a page with
\* start + records_in_page >= total and goes on after any other page.
C1_ExhaustiveInOrder ==
    (HonestProvider /\ pageErr = "" /\ Len(requests) > 0) =>
        /\ pagePc = "done" => /\ Keys(pageResult) = AllRecords(provider.n)
                              /\ LastRequest + lastPage.len >= provider.n
        /\ pagePc = "loop" => LastRequest + lastPage.len < provider.n

C1_Witness ==
    /\ HonestProvider /\ pageErr = "" /\ pagePc = "done"
    /\ strategy = "agile" /\ provider.n = 120 /\ Len(requests) = 3
    /\ Len(pageResult) = 120

\* C2: when the provider reports total = 0 on every page, the search still
\* returns all n records and stops exactly on a page shorter than the page size.
C2_ZeroTotalReturnsAll ==
    (provider.totalMode = "zero" /\ provider.cap = 0
        /\ pagePc = "done" /\ pageErr = "") =>
        /\ Keys(pageResult) = AllRecords(provider.n)
        /\ lastPage.len < PageSizeOf(strategy)

\* C3: a page with zero records ends the loop, whatever total the provider
\* reported with it.
C3_EmptyPageEndsLoop ==
    (Len(requests) > 0 /\ pageErr = "" /\ lastPage.len = 0) => pagePc = "done"

\* C4: once a page fetch has failed the operation has returned, with the
\* error and no tickets, whatever was accumulated; no page is requested after.
C4_FailureDiscardsPages ==
    /\ [](pageErr # "" => pagePc = "done" /\ pageResult = <<>>)
    /\ [][pageErr # "" => requests' = requests]_vars

C4_Witness ==
    /\ pageErr # "" /\ pagePc = "done"
    /\ Len(requests) = 3 /\ Len(allIssues) = 100

\* C13: every ticket of the list a paginated search returns carries the
\* normalizer's output for its raw description, whichever strategy ran.
C13_ReturnedTicketsNormalized ==
    (pagePc = "done" /\ pageErr = "") =>
        \A i \in DOMAIN pageResult :
            pageResult[i].descriptionText = parseDescription(pageResult[i].description)

BothReturned == firstRun # NoRun /\ pagePc = "done" /\ pageErr = ""

\* C14: on the same provider data and without a failure, the direct listing
\* and the filter-expression search return the same tickets in the same
\* order, after stopping under the same condition.
C14_StrategiesAgree ==
    BothReturned => Keys(pageResult) = Keys(firstRun.result)

\* C28: whenever the loop is about to request a page, the start offset it
\* will request is the number of records accumulated so far (so no record
\* position below the reported total is skipped); stated for a provider that
\* reports its true total, whatever the length of its pages.
C28_OffsetIsAccumulated ==
    (pagePc = "loop" /\ provider.totalMode = "exact") => startAt = Len(allIssues)

\* A step of the search loop that took in one more page after the first, the
\* page holding records.
LaterSearchPage ==
    /\ strategy = "search"
    /\ requests # <<>>
    /\ Len(requests') = Len(requests) + 1
    /\ pageErr' = ""
    /\ lastPage'.len > 0

\* C24: within one paginated search the total used in the loop test of a
\* page is never smaller than the one used for the page before, and is the
\* number of records accumulated so far when the page came without a total.
C24_EstimateNeverShrinks ==
    [][LaterSearchPage =>
          /\ lastPage'.total >= lastPage.total
          /\ ProviderTotal(provider, startAt, lastPage'.len) = 0
                => lastPage'.total = Len(allIssues')]_vars

----------------------------------------------------------------------------
(* Properties of the shift and close commands (SpecShift).                 *)

\* The TransitionIssue requests among those the last invocation sent.
Submitted == SelectSeq(cmdRequests, LAMBDA r : r.op = "TransitionIssue")

\* The match rule as the specification words it: a case-insensitive exact
\* match first; if there is none, the first transition whose status name
\* contains the word or is contained in it.
ExactThenSubstring(ts, target) ==
    LET word    == ToLower(target)
        exact   == { i \in 1..Len(ts) : ToLower(ts[i].to.name) = word }
        partial == { i \in 1..Len(ts) :
                       \/ Contains(ToLower(ts[i].to.name), word)
                       \/ Contains(word, ToLower(ts[i].to.name)) }
    IN  IF exact # {} THEN First(exact)
        ELSE IF partial # {} THEN First(partial)
        ELSE 0

\* C5: shift submits the transition chosen by exact-match-first, then
\* substring in either direction, in provider order (and none if there is none).
C5_ExactMatchFirst ==
    (lastCmd = "shift" /\ fetchOk) =>
        LET m == ExactThenSubstring(returned, targetStatus)
        IN  IF m = 0 THEN Submitted = <<>>
            ELSE Submitted = <<PostRequest(ticketKey, returned[m].id)>>

\* No status name the provider returned contains the word, case-insensitively.
NoTransitionMatches ==
    \A i \in 1..Len(returned) :
        ~Contains(ToLower(returned[i].to.name), ToLower(targetStatus))

\* C6: when no returned transition matches the word, shift ends with an
\* error, has shown the status name of every returned transition, has sent
\* no transition request, and the ticket's status is what it was.
C6_NoMatchFailsWithoutRequest ==
    (lastCmd = "shift" /\ fetchOk /\ NoTransitionMatches) =>
        /\ cmdErr # ""
        /\ Submitted = <<>>
        /\ returned # <<>> => shown = [i \in 1..Len(returned) |-> returned[i].to.name]
        /\ issueStatus[ticketKey] = statusBefore

C6_Witness ==
    /\ lastCmd = "shift" /\ fetchOk /\ NoTransitionMatches
    /\ targetStatus = "Cancelled"
    /\ shown = <<"To Do", "In Progress", "Done">>
    /\ cmdErr = "invalid transition"

\* C7: every transition request of shift and close follows, in the same
\* invocation, a successful GetTransitions request for the same ticket, and
\* carries the id of an element of the list that request returned.
C7_SubmittedIdWasFetched ==
    \A i \in 1..Len(cmdRequests) :
        cmdRequests[i].op = "TransitionIssue" =>
            /\ lastCmd \in {"shift", "close"}
            /\ fetchOk
            /\ i = 2
            /\ cmdRequests[1] = GetRequest(cmdRequests[i].key)
            /\ cmdRequests[i].key = ticketKey
            /\ \E j \in 1..Len(returned) : returned[j].id = cmdRequests[i].id

\* A later invocation, for a ticket whose permitted transitions have changed.
C7_Witness ==
    /\ lastCmd = "close" /\ fetchOk
    /\ Len(returned) < Len(workflow)
    /\ Submitted # <<>>
    /\ cmdErr = ""

\* C23: close selects the transition that shift with target "Done" selects
\* in the list the provider returned, and fails when that shift finds none.
C23_CloseIsShiftDone ==
    (lastCmd = "close" /\ fetchOk) =>
        IF ShiftMatch(returned, "Done") = 0
           THEN Submitted = <<>> /\ cmdErr # ""
           ELSE Submitted = <<PostRequest(ticketKey, returned[ShiftMatch(returned, "Done")].id)>>

----------------------------------------------------------------------------
(* Properties of the link command (SpecLink).                              *)

\* The relationship pairs of the command's help text: <<active, passive>>.
RelationshipPairs ==
    { <<"blocks", "is-blocked-by">>, <<"duplicates", "is-duplicated-by">>,
      <<"clones", "is-cloned-by">>, <<"causes", "is-caused-by">> }

\* C8: the request submitted for the "is-" word of a pair with operands
\* (a, b) has the link type of the pair's active word and the issues of the
\* active word's request for (a, b) swapped, so it is the request of the
\* active word for (b, a); a word without the "is-" prefix submits its
\* operands as typed.
C8_PassiveWordSwapsOperands ==
    (linkPc = "done" /\ linkSent # <<>>) =>
        LET a   == linkArgs[1]
            w   == ToLower(linkArgs[2])
            b   == linkArgs[3]
            req == linkSent[1]
        IN  /\ \A pair \in RelationshipPairs :
                 w = pair[2] =>
                    LET active == LinkSubmission(<<a, pair[1], b>>)[1]
                    IN  /\ active.inwardIssue.key = a /\ active.outwardIssue.key = b
                        /\ req.type = active.type
                        /\ req.inwardIssue = active.outwardIssue
                        /\ req.outwardIssue = active.inwardIssue
                        /\ req = LinkSubmission(<<b, pair[1], a>>)[1]
            /\ ~HasPrefix(w, "is-") =>
                 req.inwardIssue.key = a /\ req.outwardIssue.key = b

\* "link A blocks B" followed by "link B is-blocked-by A": one and the same link.
C8_Witness ==
    /\ linkPc = "done" /\ linkRuns = 2 /\ linkErr = ""
    /\ linkArgs = <<"PROJ-2", "is-blocked-by", "PROJ-1">>
    /\ links = {[type |-> [name |-> "Blocks"],
                 inwardIssue |-> [key |-> "PROJ-1"],
                 outwardIssue |-> [key |-> "PROJ-2"]]}

\* The table as the specification lists it: <<word, link type name>>.
RelationshipTable ==
    { <<"blocks", "Blocks">>, <<"is-blocked-by", "Blocks">>,
      <<"relates-to", "Relates">>, <<"relates", "Relates">>,
      <<"duplicates", "Duplicate">>, <<"is-duplicated-by", "Duplicate">>,
      <<"clones", "Cloners">>, <<"is-cloned-by", "Cloners">>,
      <<"causes", "Causes">>, <<"is-caused-by", "Causes">> }

\* C9: a word of the table, in any letter case, is never reported unknown
\* and any request it leads to carries the table's link type; any other word
\* ends in the unknown-relationship error with no request sent.
C9_OnlyTableWordsResolve ==
    linkPc = "done" =>
        LET w == ToLower(linkArgs[2])
        IN  IF \E e \in RelationshipTable : e[1] = w
               THEN /\ ~HasPrefix(linkErr, "unknown relationship type")
                    /\ \A i \in 1..Len(linkSent) :
                          <<w, linkSent[i].type.name>> \in RelationshipTable
                    /\ linkErr = "" => Len(linkSent) = 1
               ELSE /\ HasPrefix(linkErr, "unknown relationship type")
                    /\ linkSent = <<>>
                    /\ links = {}

C9_Witness ==
    /\ linkPc = "done"
    /\ linkArgs[2] = "is-relates-to"
    /\ linkSent = <<>>
    /\ linkErr = "unknown relationship type 'is-relates-to'"

----------------------------------------------------------------------------
(* Properties of the description normalizer (SpecDesc).                    *)

\* C10: when the raw description is a JSON string, the normalized
\* description is exactly the text it encodes; served again as a JSON
\* string, the normalized text normalizes to itself.
C10_PlainStringUnchanged ==
    (descPc = "parsed" /\ descStyle \in EncodingStyles) =>
        /\ descOut = descText
        /\ parseDescription(EncodeJSONString(descOut, "minimal")) = descOut

\* A text of quote, backslash and newline, normalized a second time.
C10_Witness ==
    /\ descPc = "parsed" /\ descStyle = "minimal" /\ descRuns = 1
    /\ descText = Quote \o Backslash \o "\n"
    /\ descRaw = Quote \o Backslash \o Quote \o Backslash \o Backslash \o Backslash \o "n" \o Quote
    /\ descOut = descText

\* The text values of a document's nodes, depth first: a node's own text
\* before its children's, children left to right.
RECURSIVE TextsInOrder(_)
RECURSIVE TextsOfForest(_, _)
TextsInOrder(doc) == doc.text \o TextsOfForest(doc.content, 1)
TextsOfForest(docs, k) ==
    IF k > Len(docs) THEN <<>> ELSE TextsInOrder(docs[k]) \o TextsOfForest(docs, k + 1)

\* The first position from `from` on at which t occurs in out, 0 if none.
FirstAt(out, t, from) ==
    IF \E i \in from..(Len(out) - Len(t) + 1) : SubSeq(out, i, i + Len(t) - 1) = t
       THEN CHOOSE i \in from..(Len(out) - Len(t) + 1) :
                /\ SubSeq(out, i, i + Len(t) - 1) = t
                /\ \A j \in from..(i - 1) : SubSeq(out, j, j + Len(t) - 1) # t
       ELSE 0

\* texts[k..] occur in out from position `from` on, one after the other.
RECURSIVE OccurInOrder(_, _, _, _)
RECURSIVE PlacedAt(_, _, _, _)
OccurInOrder(texts, k, out, from) ==
    k > Len(texts) \/ PlacedAt(texts, k, out, FirstAt(out, texts[k], from))
PlacedAt(texts, k, out, i) == i > 0 /\ OccurInOrder(texts, k + 1, out, i + Len(texts[k]))

FetchedDocument == descStyle \in DocStyles /\ descPc = "parsed" /\ descRuns = 0

\* C11: for a document tree, the normalized description contains the text
\* of every node that has one, in depth-first document order, and is empty
\* when no node of the tree has a text.
C11_DocumentTextsInOrder ==
    FetchedDocument =>
        /\ OccurInOrder(TextsInOrder(descDoc), 1, descOut, 1)
        /\ (TextsInOrder(descDoc) = <<>> => descOut = "")

\* A node with text b whose two children carry a (the first through its own
\* child) and b: the texts b, a, b come out in that order.
C11_Witness ==
    /\ FetchedDocument
    /\ descDoc = [text |-> <<"b">>,
                  content |-> << [text |-> <<>>, content |-> <<[text |-> <<"a">>, content |-> <<>>]>>],
                                 [text |-> <<"b">>, content |-> <<>>] >>]
    /\ descOut = "ba  b "

\* A description that is absent or empty, or JSON that is neither a string
\* nor an object.
NeitherShape(raw) ==
    raw = "" \/ (DecodeJSON(raw).ok /\ DecodeJSON(raw).val.kind \notin {"string", "object"})

OkReply == [fault |-> "none", status |-> 200]

\* An operation has fetched a ticket whose description is of neither shape,
\* the provider's reply being a good one.
NeitherShapeFetched ==
    descStyle = "raw" /\ descRuns = 0 /\ descReply = OkReply /\ NeitherShape(descRaw)

\* The operation returned the ticket.
TicketReturned == descErr = "" /\ descPc = (IF descOp = "GetIssue" THEN "parsed" ELSE "searched")

\* The description holds a number that does not fit a float64.
HoldsUnfitNumber(raw) == raw # "" /\ ~FitsInterface(DecodeJSON(raw))
    /\ descOp = "SearchIssues"
    /\ descRaw = " [1, 2.5] "
    /\ descPc = "searched" /\ descErr = "" /\ descOut = ""

\* The text a node carries itself.
OwnText(doc) == IF doc.text = <<>> THEN "" ELSE doc.text[1]

\* A child's text t with its trailing space: after every child, or only
\* after a child whose text is not empty.
Spaced(t, always) == IF always \/ t # "" THEN t \o " " ELSE ""

\* The node's own text, then each child's text in order with its space.
RECURSIVE TextWithSpaces(_, _)
RECURSIVE ChildrenWithSpaces(_, _, _)
TextWithSpaces(doc, always) == OwnText(doc) \o ChildrenWithSpaces(doc.content, 1, always)
ChildrenWithSpaces(docs, k, always) ==
    IF k > Len(docs) THEN ""
    ELSE Spaced(TextWithSpaces(docs[k], always), always)
            \o ChildrenWithSpaces(docs, k + 1, always)

\* C26 as stated: the output is the node's text followed, for each child in
\* order, by the child's extracted text and one space, also for a child
\* whose extracted text is empty.
C26_EveryChildOneSpace == FetchedDocument => descOut = TextWithSpaces(descDoc, TRUE)

\* C26, amended: the output is the node's text followed, for each child in
\* order whose extracted text is not empty, by that text and one space; a
\* child whose extracted text is empty contributes nothing.
C26_NonEmptyChildOneSpace == FetchedDocument => descOut = TextWithSpaces(descDoc, FALSE)

\* A node with text a, a first child without any text and a second with b.
C26_Witness ==
    /\ FetchedDocument
    /\ descDoc = [text |-> <<"a">>,
                  content |-> << [text |-> <<>>, content |-> <<>>],
                                 [text |-> <<"b">>, content |-> <<>>] >>]
    /\ descOut = "ab "

----------------------------------------------------------------------------
(* Properties of the transport (SpecReq).                                  *)

CredentialsMissing == client.Token = "" \/ (client.Email = "" /\ client.Username = "")

Called == Len(reqCalls) > 0

LastCall == reqCalls[Len(reqCalls)]

\* The request of the last call could be built: its URL parses.
RequestBuilt == NewRequestError(client.BaseURL \o LastCall.endpoint) = ""

\* The transport takes the request: its URL names http or https and a host.
RequestTaken == RoundTripError(client.BaseURL \o LastCall.endpoint) = ""

\* C15 as stated: whenever the token is empty or both email and username
\* are empty, makeRequest fails with the credentials-missing error and
\* issues no network request.
C15_MissingCredentialsError ==
    (Called /\ CredentialsMissing) => (reqErr = CredentialsError /\ reqSent = <<>>)

\* C15, amended: with the token empty or both email and username empty,
\* makeRequest fails and issues no network request, and the error is the
\* credentials-missing one whenever the request itself could be built;
\* otherwise every request that is sent carries the email as basic-auth
\* user when the email is non-empty, the username when it is empty, and
\* the token as password.
C15_CredentialsChecked ==
    Called =>
        /\ CredentialsMissing =>
              /\ reqErr # "" /\ reqSent = <<>>
              /\ RequestBuilt => reqErr = CredentialsError
        /\ ~CredentialsMissing =>
              /\ reqErr # CredentialsError
              /\ (RequestBuilt /\ RequestTaken) => Len(reqSent) = Len(reqCalls)
              /\ \A i \in DOMAIN reqSent :
                    /\ reqSent[i].user = IF client.Email # "" THEN client.Email
                                                              ELSE client.Username
                    /\ reqSent[i].password = client.Token

\* A Confluence client with a username and no email sent two requests as
\* that user; and a client without a token was refused.
C15_Witness ==
    /\ client.kind = "confluence" /\ client.Email = "" /\ client.Username = "me"
    /\ Len(reqCalls) = 2 /\ Len(reqSent) = 2
    /\ reqSent[2].user = "me" /\ reqSent[2].url = "https://jira.example.com/api/v2/pages/1"

----------------------------------------------------------------------------
(* Properties of the attachments command (SpecAtt).                        *)

\* C16: an error is terminal for the command: the failed operation is the
\* last one the command runs, and the command ends with an error, not with
\* a report of success.
C16_ErrorsAreTerminal ==
    \A i \in DOMAIN attOps :
        attOps[i].err # "" =>
            /\ i = Len(attOps)
            /\ attPc = "done" /\ attErr # "" /\ ~attSuccess

----------------------------------------------------------------------------
(* Properties of configuration loading (SpecCfg).                          *)

\* The file can be read: it opens, and its mode was restrictive or could be
\* made so.
FileReadable ==
    /\ cfgFile.exists /\ cfgFile.openOk /\ cfgFile.scanStop = 0
    /\ (cfgModeBefore % 64 = 0 \/ cfgFile.chmodOk)

\* What the [jira] section of the file gives: nothing if there is no file
\* or it cannot be read.
JiraSectionOfFile ==
    IF FileReadable /\ ~ScanLines(cfgFile.lines, 1, "jira", FALSE, EmptyConfig).panic
       THEN ScanLines(cfgFile.lines, 1, "jira", FALSE, EmptyConfig).config
       ELSE EmptyConfig

\* The environment's value when it is non-empty, else the file's.
Resulting(field) ==
    IF env["JIRA"][field] # "" THEN env["JIRA"][field] ELSE JiraSectionOfFile[field]

\* C17: each of URL, email, username and token is the environment's value
\* when that is non-empty and the file's otherwise, and loading fails if and
\* only if the resulting URL is empty, or the resulting token is empty, or
\* both the resulting email and username are empty.
C17_EnvironmentThenFile ==
    cfgPc = "done" =>
        /\ cfgErr # "" <=> \/ Resulting("URL") = ""
                           \/ Resulting("Token") = ""
                           \/ Resulting("Email") = "" /\ Resulting("Username") = ""
        /\ cfgErr = "" => \A field \in {"URL", "Email", "Username", "Token"} :
                              cfgOut[field] = Resulting(field)

FileLoaded == cfgPc = "done" /\ cfgFile.exists

GroupOrOtherAccess(mode) == mode % 64 # 0

IsPrefix(p, q) == Len(p) <= Len(q) /\ SubSeq(q, 1, Len(p)) = p

Occurs(e, events) == \E i \in DOMAIN events : events[i] = e

\* C18: a file accessible to group or others is first set to mode 0600,
\* then the warning is given, and only then is the file opened and read; if
\* the mode cannot be changed, loading fails and the file is neither opened
\* nor read.  After a successful load the file has no group or other bits.
C18_ModeFixedBeforeRead ==
    FileLoaded =>
        /\ (GroupOrOtherAccess(cfgModeBefore) /\ cfgFile.chmodOk) =>
              /\ IsPrefix(<<"chmod 0600", "warning">>, cfgEvents)
              /\ cfgFile.mode = 384
        /\ (GroupOrOtherAccess(cfgModeBefore) /\ ~cfgFile.chmodOk) =>
              /\ cfgErr # ""
              /\ ~Occurs("open", cfgEvents) /\ ~Occurs("read", cfgEvents)
              /\ cfgFromFile = EmptyConfig /\ cfgOut = EmptyConfig
        /\ ~GroupOrOtherAccess(cfgModeBefore) => ~Occurs("chmod 0600", cfgEvents)
        /\ cfgErr = "" => ~GroupOrOtherAccess(cfgFile.mode) /\ Occurs("read", cfgEvents)

\* A file of mode 0644 was set to 0600 and then read, the token coming
\* from it.
C18_Witness ==
    /\ FileLoaded /\ cfgModeBefore = 420 /\ cfgFile.mode = 384
    /\ cfgEvents = <<"chmod 0600", "warning", "open", "read">>
    /\ cfgErr = "" /\ cfgOut.Token = "filetoken" /\ cfgOut.Username = "fileuser"

----------------------------------------------------------------------------
(* Properties of the attachment downloads (SpecAtt).                       *)

\* C29: a request that carries the basic-auth credentials is addressed to
\* the configured base URL, never to a URL of the provider's response data.
C29_CredentialsOnlyToBaseURL ==
    \A i \in DOMAIN attSent :
        attSent[i].user # <<>> => HasPrefix(attSent[i].url, attCfg.URL)

----------------------------------------------------------------------------
(* Properties of LoadConfluence (SpecWiki).                                *)

\* The file as it was when LoadConfluence began.
FileBefore ==
    [cfgFile EXCEPT !.mode = cfgModeBefore, !.exists = cfgFile.exists \/ cfgFile.removed]

\* The two attempts, each taken by itself on the file as the attempt finds it.
ConfluenceAttempt == LoadSectionOf("confluence", "CONFLUENCE", FileBefore)
JiraAttempt == LoadSectionOf("jira", "JIRA", FileAfter(FileBefore, "confluence"))

\* LoadConfluence returned (the scanner did not panic on the way).
Returned == cfgPc = "done" /\ ~Panicked([err |-> cfgErr])

\* C27: when LoadConfluence returns, it returns the Confluence configuration
\* if that loads; otherwise the Jira configuration, whole, if that loads; and
\* if both fail the error of the Confluence attempt.
C27_ConfluenceThenJira ==
    Returned =>
        /\ ConfluenceAttempt.err = "" => (cfgErr = "" /\ cfgOut = ConfluenceAttempt.config)
        /\ (ConfluenceAttempt.err # "" /\ JiraAttempt.err = "")
              => (cfgErr = "" /\ cfgOut = JiraAttempt.config)
        /\ (ConfluenceAttempt.err # "" /\ JiraAttempt.err # "")
              => (cfgErr = ConfluenceAttempt.err /\ cfgOut = EmptyConfig)

\* The environment names a wiki URL only and a complete Jira configuration:
\* the result is the Jira configuration, its URL included.
C27_Witness ==
    /\ cfgPc = "done"
    /\ env["CONFLUENCE"].URL = "https://wiki.env.example.com"
    /\ env["CONFLUENCE"].Token = ""
    /\ ~cfgFile.exists
    /\ cfgErr = ""
    /\ cfgOut = [URL |-> "https://env.example.com", Email |-> "env@example.com",
                 Username |-> "", Token |-> "envtoken"]

----------------------------------------------------------------------------
(* Properties of the self-update command (SpecUpd).                        *)

\* C19: the installed binary is replaced only after the user was asked and
\* gave an explicit confirmation.
C19_ReplacedOnlyWhenConfirmed ==
    (installed = "new" \/ \E i \in DOMAIN updSteps : updSteps[i] = "Rename") =>
        (updPrompted /\ userConfirms)

----------------------------------------------------------------------------
(* Properties of the view command (SpecView).                              *)

\* url.URL.Hostname, for a host without brackets: the host without its port
Hostname(host) ==
    IF LastIndex(host, ":") = 0 THEN host ELSE SubSeq(host, 1, LastIndex(host, ":") - 1)

TrustedDomains == {"atlassian.net", "jira.com"}

\* The host is a trusted domain or a subdomain of one.
TrustedHost(host) ==
    \E d \in TrustedDomains : Hostname(host) = d \/ HasSuffix(Hostname(host), "." \o d)

\* The path has the form /browse/KEY.
IsBrowsePath(path) ==
    /\ HasPrefix(path, "/browse/")
    /\ FindBrowseKey(path) # ""
    /\ path = "/browse/" \o FindBrowseKey(path)

\* C20: given a URL, the command fetches a ticket only if the URL's scheme is
\* https, its host is a trusted JIRA domain or a subdomain of one, and its
\* path has the form /browse/KEY.
C20_OnlyTrustedBrowseURLsFetched ==
    (viewPc = "done" /\ Contains(viewArg, "://") /\ viewFetched # <<>>) =>
        /\ Parse(viewArg).err = ""
        /\ Parse(viewArg).Scheme = "https"
        /\ TrustedHost(Parse(viewArg).Host)
        /\ IsBrowsePath(Parse(viewArg).Path)

----------------------------------------------------------------------------
(* Properties of the init command (SpecInit).                              *)

\* The command has written the config file.
FileSaved == initPc = "done" /\ initSaved = "file" /\ initErr = ""

\* C21: a config file written by the init command, new or rewritten, has
\* mode 0600 when the command finishes.
C21_SavedFileIsPrivate == FileSaved => initFile.mode = Mode0600

\* What loadFromFileSection reads for a section in the lines of a file.
SectionRead(lines, section) == ScanLines(lines, 1, section, FALSE, EmptyConfig)

OtherSectionNames == {"confluence", "other", "none"}

\* C30: saving the Jira settings leaves what loadFromFileSection reads for
\* every other section as it was before the save.
C30_OtherSectionsUnchanged ==
    FileSaved =>
        \A section \in OtherSectionNames :
            SectionRead(initFile.lines, section) = SectionRead(initBefore.lines, section)

----------------------------------------------------------------------------
(* Properties of the epic command (SpecEpic).                              *)

\* The child counts as open: its status name is, whatever the case of its
\* letters, none of closed, done and resolved.
IsOpenChild(child) == \A closed \in ClosedStatuses : ToLower(child.status) # closed

\* The command has put out its list.
EpicListed == epicPc = "done" /\ epicExit = 0

\* C22: without --all the command puts out exactly the fetched children that
\* are open, in the order fetched; with --all every fetched child, in order.
C22_OpenChildrenInOrder ==
    EpicListed =>
        epicShown = IF showAllTickets THEN epicFetched ELSE SelectSeq(epicFetched, IsOpenChild)

\* A closed child written with capitals stands between two open ones and is
\* left out.
C22_Witness ==
    /\ EpicListed
    /\ ~showAllTickets
    /\ Len(epicFetched) = 3
    /\ epicFetched[2].status = "CLOSED"
    /\ Len(epicShown) = 2
    /\ epicShown[1].key = 1
    /\ epicShown[2].key = 3

----------------------------------------------------------------------------
(* Properties of the client's status handling (SpecOp).                    *)

\* The status each operation takes for a success.
SuccessCode(op) ==
    CASE op \in {"GetIssue", "SearchIssuesWithPagination", "GetEpicChildren", "GetCurrentUser",
                 "GetTransitions"}                          -> 200
      [] op \in {"AddComment", "CreateIssue", "LinkIssues"} -> 201
      [] op \in {"UpdateIssue", "TransitionIssue"}          -> 204

\* The call came back with an HTTP status.
Answered == opPc = "done" /\ opReply.fault # "transport"

\* C25: an operation reports success only for its own success code; every
\* other status is an error without a result, 401 is reported as
\* authentication failed and 403 as access denied.
C25_SuccessOnlyOnSuccessCode ==
    /\ (opPc = "done" /\ opErr = "") => (Answered /\ opReply.status = SuccessCode(opName))
    /\ (Answered /\ opReply.status # SuccessCode(opName)) => (opErr # "" /\ ~opResult)
    /\ (Answered /\ opReply.status = 401) => HasPrefix(opErr, "authentication failed")
    /\ (Answered /\ opReply.status = 403) => HasPrefix(opErr, "access denied")

\* A 2xx answer that is not the operation's success code is an error.
C25_Witness ==
    /\ Answered
    /\ opName = "UpdateIssue"
    /\ opReply.status = 200
    /\ opErr = "HTTP error: failed to update issue"

====
